---- MODULE Spec2Model ----
(***************************************************************************)
(* A model of the word2dita transformation pipeline                        *)
(* (server/utils/htmlUtilsDita.js, kept here as src/unnamed/part_001).     *)
(*                                                                         *)
(* The pipeline is a chain of pure string-to-string stages.  Each part of  *)
(* it is modelled by operators that compute what the code computes, and by *)
(* one specification per part whose Init draws the inputs from bounded     *)
(* sets and whose actions apply the operation:                             *)
(*   SpecTable  processTables / generateCalsRows                           *)
(*   SpecList   bufferToList                                               *)
(*   SpecHead   cleanHeadingTags                                           *)
(*   SpecScan   convertMsoListToNestedLists (unwrapping and node scan)     *)
(*   SpecRerun  cleanHtml and formatHtml run on their own output           *)
(*   SpecPipe   the stage sequence of cleanHtml and formatHtml, with       *)
(*              failing stages                                             *)
(*   SpecConc   concurrent invocations of transformContent                 *)
(*   SpecStyle  cleanSelectiveStyles on one style attribute                *)
(*   SpecLevel  addListLevelClasses on the <p> start tags of a document    *)
(*   SpecKind   getListType on one marker text                             *)
(*   SpecWidth  the column widths of a table through cleanEmptyTags and    *)
(*              processTables                                              *)
(*   SpecNest   processTables on a table whose cells hold tables           *)
(*   SpecSect   the header and body groups of processTables                *)
(*   SpecEmpty  cleanEmptyTags on elements with empty descendants          *)
(*   SpecLink   the link conversion of doExtraTransformJsdomCantHandle      *)
(*   SpecMerge  mergeConsecutiveInlineTags                                 *)
(*   SpecFormat formatHtml, token by token                                 *)
(***************************************************************************)
EXTENDS Integers, Sequences, FiniteSets, TLC

VARIABLES
    table,      \* the source <table>: a sequence of row sections
    cals,       \* what processTables emitted for it
    tpc,        \* "src" before processTables, "done" after, "idle" when unused
    buffer,     \* the list-marker paragraphs handed to bufferToList
    tree,       \* what bufferToList built from them
    lpc,        \* "src" before bufferToList, "done" after, "idle" when unused
    headIn,     \* the markup handed to cleanHeadingTags, as a sequence of tokens
    headOut,    \* the markup cleanHeadingTags returns
    hpc,        \* "src" before cleanHeadingTags, "done" after, "idle" when unused
    body,       \* the child nodes of <body> convertMsoListToNestedLists parsed
    newBody,    \* the child nodes of <body> it serializes
    spc,        \* "src" before convertMsoListToNestedLists, "done" after, or "idle"
    doc,        \* the parsed document a run of the whole pipeline starts from
    out1,       \* formatHtml(cleanHtml(x)), the markup of the first run
    out2,       \* the markup of a second run on out1
    rpc,        \* "src", "once" after the first run, "twice" after the second, "idle"
    content,    \* the markup transformContent is called with
    html,       \* the variable html of cleanHtml
    inner,      \* the parameter html of doExtraTransformJsdomCantHandle
    cleaned,    \* what cleanHtml returned
    result,     \* what formatHtml returned
    step,       \* the number of the step of cleanHtml to run next
    phase,      \* "clean" in cleanHtml, "format" before formatHtml, "done", "idle"
    log,        \* the steps that ran, with their outcome, input and output
    debugDir,   \* the debug directory: whether it exists, and its files
    runs,       \* the invocations of transformContent
    styleIn,    \* the value of a style attribute, split at ';'
    styleOut,   \* the attribute cleanSelectiveStyles leaves
    stpc,       \* "src", then "cleaned"
    startTags,  \* the <p> start tags of the markup handed to addListLevelClasses
    classed,    \* the start tags it returns
    vpc,        \* "src", then "classed"
    markerText, \* the marker text of a list-marker paragraph
    listKind,   \* what getListType returns for it
    kpc,        \* "src", then "done"
    widthDoc,   \* the parsed document that holds a table with column widths
    widthTree,  \* the document after cleanEmptyTags
    colspecs,   \* the <dita-colspec> elements processTables emits for it
    wpc,        \* "src", "cleaned" after cleanEmptyTags, "done" after processTables
    nestIn,     \* the parsed document with nested tables handed to processTables
    nestDoc,    \* the document while processTables converts its tables
    tablesLeft, \* the paths of the tables forEach has still to visit
    npc,        \* "src", "loop" in tables.forEach, "done"
    sectTable,  \* the row sections of a parsed <table>
    groups,     \* the header and body groups processTables emits
    gpc,        \* "src", then "done"
    emptyIn,    \* the child nodes of <body> cleanEmptyTags parsed
    emptyOut,   \* the child nodes of <body> it serializes
    epc,        \* "src", then "done"
    linkIn,     \* the markup before the link conversion, as a sequence of tokens
    linkOut,    \* the markup after it
    xpc,        \* "src", then "done"
    mergeIn,    \* the child nodes of <body> mergeConsecutiveInlineTags parsed
    mergeOut,   \* the tree of the markup it returns
    mpc,        \* "src", then "done"
    fmtTags,    \* the array tags of formatHtml: the markup split at its tags
    fmtIndex,   \* the index i of the loop of formatHtml, counted from 1
    indent,     \* the indent counter
    currentLine,\* the inline tags and texts of the line under construction
    formatted,  \* the lines emitted so far, each with its indentation
    fpc         \* "loop", then "done"

tableVars == <<table, cals, tpc>>

listVars == <<buffer, tree, lpc>>

headVars == <<headIn, headOut, hpc>>

scanVars == <<body, newBody, spc>>

rerunVars == <<doc, out1, out2, rpc>>

pipeVars == <<content, html, inner, cleaned, result, step, phase, log>>

concVars == <<debugDir, runs>>

styleVars == <<styleIn, styleOut, stpc>>

levelVars == <<startTags, classed, vpc>>

kindVars == <<markerText, listKind, kpc>>

widthVars == <<widthDoc, widthTree, colspecs, wpc>>

nestVars == <<nestIn, nestDoc, tablesLeft, npc>>

sectVars == <<sectTable, groups, gpc>>

emptyVars == <<emptyIn, emptyOut, epc>>

linkVars == <<linkIn, linkOut, xpc>>

mergeVars == <<mergeIn, mergeOut, mpc>>

formatVars == <<fmtTags, fmtIndex, indent, currentLine, formatted, fpc>>

vars == <<table, cals, tpc, buffer, tree, lpc, headIn, headOut, hpc,
          body, newBody, spc, doc, out1, out2, rpc,
          content, html, inner, cleaned, result, step, phase, log,
          debugDir, runs,
          styleIn, styleOut, stpc,
          startTags, classed, vpc,
          markerText, listKind, kpc,
          widthDoc, widthTree, colspecs, wpc,
          nestIn, nestDoc, tablesLeft, npc,
          sectTable, groups, gpc,
          emptyIn, emptyOut, epc,
          linkIn, linkOut, xpc,
          mergeIn, mergeOut, mpc,
          fmtTags, fmtIndex, indent, currentLine, formatted, fpc>>

\* ------------------------------------------------------------------------
\* Bounds of the model
\* ------------------------------------------------------------------------

\* rows of a source table
MaxRows == 3
\* cells of a source table, all rows together
MaxCells == 4
\* list-marker paragraphs of one buffer
MaxItems == 4
\* the deepest list level of a list-marker paragraph
MaxLevel == 3
\* top-level blocks of the markup handed to cleanHeadingTags
MaxBlocks == 3
\* child nodes of the <body> handed to convertMsoListToNestedLists
MaxTop == 2
\* child nodes of a <body> that holds no container element
MaxLeaves == 5
\* constructs of the markup handed to cleanHtml
MaxConstructs == 2
\* steps that fail in one run of cleanHtml and formatHtml
MaxFailures == 1
\* concurrent invocations of transformContent
MaxInvocations == 2
\* declarations of one style attribute
MaxDeclarations == 3
\* <p> start tags of the markup handed to addListLevelClasses
MaxParagraphs == 3
\* characters of a marker text
MaxMarker == 3
\* <col> elements of a <colgroup>
MaxCols == 2
\* cells of the first row of a table with column widths
MaxWidthCells == 3
\* cells of a table that holds tables
MaxNestCells == 2
\* row sections of a table, and rows of one section
MaxSections == 3
MaxSectionRows == 2
\* child nodes of an element handed to cleanEmptyTags
MaxEmptyKids == 2
\* elements of the markup handed to the link conversion
MaxLinks == 2
\* child nodes of the element handed to mergeConsecutiveInlineTags
MaxInline == 3
\* tags and texts of the markup handed to formatHtml
MaxTokens == 4

\* ------------------------------------------------------------------------
\* Helpers
\* ------------------------------------------------------------------------

Max(a, b) == IF a >= b THEN a ELSE b

Min(a, b) == IF a <= b THEN a ELSE b

RECURSIVE SeqSum(_)
SeqSum(s) == IF s = <<>> THEN 0 ELSE Head(s) + SeqSum(Tail(s))

RECURSIVE SeqMax(_)
SeqMax(s) == IF s = <<>> THEN 0 ELSE Max(Head(s), SeqMax(Tail(s)))

RECURSIVE Flatten(_)
Flatten(ss) == IF ss = <<>> THEN <<>> ELSE Head(ss) \o Flatten(Tail(ss))

\* ------------------------------------------------------------------------
\* Table Transformer: processTables and generateCalsRows
\* ------------------------------------------------------------------------

\* An attribute is <<>> when the element does not carry it, <<v>> when it
\* carries the value v.  The span values a source cell may carry:
SpanAttrs == {<<>>, <<2>>}

\* parseInt(cell.getAttribute('colspan') || '1', 10)
SpanOf(attr) == IF attr = <<>> THEN 1 ELSE attr[1]

Cells == [rowspan : SpanAttrs, colspan : SpanAttrs]

\* The <tr> elements of a source table are drawn as the numbers of cells of
\* the rows (lens) and the cells of all rows in document order (cells).
RowLengths(r) == {lens \in [1..r -> 0..MaxCells] : SeqSum(lens) <= MaxCells}

\* the cells of row i
RowOf(lens, cells, i) ==
    LET before == SeqSum(SubSeq(lens, 1, i - 1))
    IN  SubSeq(cells, before + 1, before + lens[i])

\* A source table: its <tr> elements in document order, the first nhead of
\* them inside the <thead>, the others inside the <tbody>.
SourceTable(lens, cells, nhead) ==
    [rows |-> [i \in 1..Len(lens) |-> RowOf(lens, cells, i)], nhead |-> nhead]

\* table.querySelectorAll('tr')
TableRows(t) == t.rows

\* the sum of the column-spans of the cells of one row
RowCount(row) == SeqSum([i \in 1..Len(row) |-> SpanOf(row[i].colspan)])

\* a variant of ColCount that reads the column count off the first row alone
ColCountOfFirstRow(t) ==
    IF TableRows(t) = <<>> THEN 0 ELSE RowCount(TableRows(t)[1])

\* colCount: 0 without a row, or the largest RowCount
ColCount(t) ==
    IF TableRows(t) = <<>> THEN 0
    ELSE SeqMax([i \in 1..Len(TableRows(t)) |-> RowCount(TableRows(t)[i])])

\* colNames[k] of generateCalsRows: k counts from 0; outside the array the
\* read gives undefined, which the template literal prints as "undefined"
ColName(k, colCount) ==
    IF k >= 0 /\ k < colCount THEN <<"col", k + 1>> ELSE <<"undefined">>

\* while (occupied[rowIndex]?.[col]) col++
RECURSIVE SkipOccupied(_, _, _)
SkipOccupied(occupied, rowIndex, col) ==
    IF <<rowIndex, col>> \in occupied
    THEN SkipOccupied(occupied, rowIndex, col + 1)
    ELSE col

\* the positions a cell placed at (rowIndex, col) marks as occupied
Marked(rowIndex, col, rowspan, colspan) ==
    {<<rowIndex + r, col + c>> : r \in 0..(rowspan - 1), c \in 0..(colspan - 1)}

\* the <dita-entry> emitted for a cell placed at (rowIndex, col)
Entry(cell, rowIndex, col, colCount) ==
    LET rowspan == SpanOf(cell.rowspan)
        colspan == SpanOf(cell.colspan)
    IN  [pad      |-> FALSE,
         row      |-> rowIndex,
         col      |-> col,
         rowspan  |-> rowspan,
         colspan  |-> colspan,
         morerows |-> IF rowspan > 1 THEN <<rowspan - 1>> ELSE <<>>,
         namest   |-> IF colspan > 1 THEN ColName(col, colCount) ELSE <<>>,
         nameend  |-> IF colspan > 1 THEN ColName(col + colspan - 1, colCount)
                      ELSE <<>>]

\* the empty <dita-entry> appended at (rowIndex, col) to fill a row
PadEntry(rowIndex, col) ==
    [pad |-> TRUE, row |-> rowIndex, col |-> col, rowspan |-> 1, colspan |-> 1,
     morerows |-> <<>>, namest |-> <<>>, nameend |-> <<>>]

\* while (col < colCount) { result += '<dita-entry></dita-entry>'; col++ }
PadRow(rowIndex, col, colCount) ==
    [i \in 1..Max(0, colCount - col) |-> PadEntry(rowIndex, col + i - 1)]

\* the loop over the cells of one row: [entries, occupied, col] after it
RECURSIVE PlaceCells(_, _, _, _, _, _)
PlaceCells(cells, rowIndex, col, occupied, colCount, entries) ==
    IF cells = <<>> THEN [entries |-> entries, occupied |-> occupied, col |-> col]
    ELSE LET at   == SkipOccupied(occupied, rowIndex, col)
             cell == Head(cells)
         IN  PlaceCells(Tail(cells), rowIndex, at + SpanOf(cell.colspan),
                        occupied \cup Marked(rowIndex, at, SpanOf(cell.rowspan),
                                             SpanOf(cell.colspan)),
                        colCount,
                        Append(entries, Entry(cell, rowIndex, at, colCount)))

\* the loop over the rows: the emitted rows, each a sequence of entries
RECURSIVE CalsRowsFrom(_, _, _, _)
CalsRowsFrom(rows, rowIndex, occupied, colCount) ==
    IF rowIndex >= Len(rows) THEN <<>>
    ELSE LET placed == PlaceCells(rows[rowIndex + 1], rowIndex, 0, occupied,
                                  colCount, <<>>)
         IN  <<placed.entries \o PadRow(rowIndex, placed.col, colCount)>>
             \o CalsRowsFrom(rows, rowIndex + 1, placed.occupied, colCount)

generateCalsRows(rows, colCount) == CalsRowsFrom(rows, 0, {}, colCount)

\* headRows: the rows of the <thead>
HeadRows(t) == SubSeq(t.rows, 1, Min(t.nhead, Len(t.rows)))

\* bodyRows: the rows of the <tbody> (the rows outside the <thead>)
BodyRows(t) == SubSeq(t.rows, Min(t.nhead, Len(t.rows)) + 1, Len(t.rows))

\* <dita-colspec colnum="i" colname="coli"> for i = 1..colCount
ColSpecs(colCount) == [i \in 1..colCount |-> [colnum |-> i, colname |-> <<"col", i>>]]

NotConverted ==
    [converted |-> FALSE, cols |-> 0, colspecs |-> <<>>, thead |-> <<>>, tbody |-> <<>>]

\* the body of tables.forEach: a table without a cell is skipped, any other
\* is replaced by the dita-table built here
ConvertTable(t) ==
    LET colCount == ColCount(t)
    IN  IF colCount = 0 THEN NotConverted
        ELSE [converted |-> TRUE,
              cols      |-> colCount,
              colspecs  |-> ColSpecs(colCount),
              thead     |-> generateCalsRows(HeadRows(t), colCount),
              tbody     |-> generateCalsRows(BodyRows(t), colCount)]

\* ------------------------------------------------------------------------
\* List Reconstructor: bufferToList
\* ------------------------------------------------------------------------

ListTypes == {"ol", "ul"}

\* A list-marker paragraph of the buffer: the level of its list-level-N
\* class and the list type getListType reads from its marker.
Paras == [level : 1..MaxLevel, listType : ListTypes]

\* the buffers of n paragraphs
Buffers(n) == [1..n -> Paras]

\* The elements bufferToList creates, in the order of their creation; an
\* element is named by its index.  parent and rootList, currentList are 0
\* for null.  item is the buffer index of the paragraph an <li> was made from.
\* document.createElement(tag)
CreateElement(dom, tag, item) ==
    Append(dom, [tag |-> tag, item |-> item, parent |-> 0, kids |-> <<>>])

\* a variant of AppendChild that puts the child in front of the others
AppendChildFirst(dom, parent, child) ==
    [dom EXCEPT ![parent].kids = <<child>> \o @, ![child].parent = parent]

\* parent.appendChild(child), child being a new element
AppendChild(dom, parent, child) ==
    [dom EXCEPT ![parent].kids = Append(@, child), ![child].parent = parent]

\* element.lastElementChild
LastElementChild(dom, e) ==
    IF dom[e].kids = <<>> THEN 0 ELSE dom[e].kids[Len(dom[e].kids)]

\* element.parentElement
ParentElement(dom, e) == dom[e].parent

\* for (j < previousLevel - level): currentList = its grandparent, if any
RECURSIVE Ascend(_, _, _)
Ascend(dom, currentList, times) ==
    IF times <= 0 THEN currentList
    ELSE IF /\ currentList # 0
            /\ ParentElement(dom, currentList) # 0
            /\ ParentElement(dom, ParentElement(dom, currentList)) # 0
         THEN Ascend(dom, ParentElement(dom, ParentElement(dom, currentList)), times - 1)
         ELSE Ascend(dom, currentList, times - 1)

BuilderStart ==
    [dom |-> <<>>, rootList |-> 0, currentList |-> 0, previousLevel |-> 0,
     currentListType |-> "ul"]

\* a variant of LevelOne that, once the root list exists, appends to the
\* current list without returning to the root list
LevelOneInCurrentList(st, li, listType) ==
    LET fresh == st.rootList = 0 \/ st.previousLevel = 0
        dom1  == IF fresh THEN CreateElement(st.dom, listType, 0) ELSE st.dom
        root  == IF fresh THEN Len(dom1) ELSE st.rootList
        cur   == IF fresh THEN root ELSE st.currentList
    IN  [st EXCEPT !.dom = AppendChild(dom1, cur, li),
                   !.rootList = root,
                   !.currentList = cur,
                   !.currentListType = IF fresh THEN listType ELSE @]

\* level === 1: the item goes to the root list, created on first use
LevelOne(st, li, listType) ==
    LET fresh == st.rootList = 0 \/ st.previousLevel = 0
        dom1  == IF fresh THEN CreateElement(st.dom, listType, 0) ELSE st.dom
        root  == IF fresh THEN Len(dom1) ELSE st.rootList
    IN  [st EXCEPT !.dom = AppendChild(dom1, root, li),
                   !.rootList = root,
                   !.currentList = root,
                   !.currentListType = IF fresh THEN listType ELSE @]

\* level > previousLevel: a new list inside the last item of the current list
Descend(st, listType) ==
    LET dom1     == CreateElement(st.dom, listType, 0)
        subList  == Len(dom1)
        lastItem == IF st.currentList # 0
                    THEN LastElementChild(st.dom, st.currentList) ELSE 0
    IN  IF lastItem # 0
        THEN [st EXCEPT !.dom = AppendChild(dom1, lastItem, subList),
                        !.currentList = subList, !.currentListType = listType]
        ELSE IF st.currentList # 0
        THEN [st EXCEPT !.dom = AppendChild(dom1, st.currentList, subList),
                        !.currentList = subList, !.currentListType = listType]
        ELSE [st EXCEPT !.dom = dom1,
                        !.currentList = subList, !.currentListType = listType,
                        !.rootList = IF @ = 0 THEN subList ELSE @]

\* level === previousLevel && listType !== currentListType: a new list
\* beside the current one
SwitchKind(st, listType) ==
    LET dom1    == CreateElement(st.dom, listType, 0)
        newList == Len(dom1)
    IN  IF st.currentList # 0 /\ ParentElement(st.dom, st.currentList) # 0
        THEN [st EXCEPT !.dom = AppendChild(dom1, ParentElement(st.dom, st.currentList),
                                            newList),
                        !.currentList = newList, !.currentListType = listType]
        ELSE IF st.currentList = 0
        THEN [st EXCEPT !.dom = dom1,
                        !.currentList = newList, !.currentListType = listType,
                        !.rootList = IF @ = 0 THEN newList ELSE @]
        ELSE [st EXCEPT !.dom = dom1]

\* level !== 1: move to the list of the level, then append the item to it
DeeperLevel(st, li, level, listType) ==
    LET st1 == IF level > st.previousLevel THEN Descend(st, listType)
               ELSE IF level < st.previousLevel
               THEN [st EXCEPT !.currentList =
                        Ascend(st.dom, st.currentList, st.previousLevel - level)]
               ELSE IF listType # st.currentListType THEN SwitchKind(st, listType)
               ELSE st
    IN  IF st1.currentList # 0
        THEN [st1 EXCEPT !.dom = AppendChild(st1.dom, st1.currentList, li)]
        ELSE st1

\* one turn of the loop over the buffer, for buffer[i]
BufferStep(st, buf, i) ==
    LET dom1 == CreateElement(st.dom, "li", i)
        li   == Len(dom1)
        st1  == [st EXCEPT !.dom = dom1]
        st2  == IF buf[i].level = 1 THEN LevelOne(st1, li, buf[i].listType)
                ELSE DeeperLevel(st1, li, buf[i].level, buf[i].listType)
    IN  [st2 EXCEPT !.previousLevel = buf[i].level]

RECURSIVE BufferLoop(_, _, _)
BufferLoop(st, buf, i) ==
    IF i > Len(buf) THEN st ELSE BufferLoop(BufferStep(st, buf, i), buf, i + 1)

\* bufferToList(buffer): the elements built and the root list returned
BufferToList(buf) ==
    LET st == BufferLoop(BuilderStart, buf, 1)
    IN  [dom |-> st.dom, rootList |-> IF buf = <<>> THEN 0 ELSE st.rootList]

NoTree == [dom |-> <<>>, rootList |-> 0]

\* ------------------------------------------------------------------------
\* Structural Normalizer: cleanHeadingTags
\* ------------------------------------------------------------------------

\* Markup is a sequence of tokens: tags and text fragments, as the regular
\* expressions of cleanHeadingTags see them.
OpenH == <<"<h1>", "<h2>", "<h3>">>
CloseH == <<"</h1>", "</h2>", "</h3>">>

\* <h1 ...> and </h1>
OpenH1 == {OpenH[1]}
CloseH1 == {CloseH[1]}

\* <h[2-6] ...> and </h[2-6]>
OpenLower == {OpenH[n] : n \in 2..Len(OpenH)}
CloseLower == {CloseH[n] : n \in 2..Len(CloseH)}

\* the text of a heading: plain text, or text holding the two characters $$
HeadingTexts == {"A", "B", "$$"}

\* The blocks the markup is drawn from: a heading of any level, a paragraph,
\* a paragraph with a list-marker span (style mso-list:Ignore), and a heading
\* that holds a heading inside an inline element (the HTML parser lets a
\* heading nest in a heading through a formatting element).
HeadingBlocks ==
    {<<OpenH[n], t, CloseH[n]>> : n \in 1..Len(OpenH), t \in HeadingTexts}

OtherBlocks ==
    { <<"<p>", "x", "</p>">>,
      <<"<p>", "<span mso-list:Ignore>", "1.", "</span>", "x", "</p>">>,
      <<OpenH[2], "<b>", OpenH[3], "B", CloseH[3], "</b>", CloseH[2]>> }

Blocks == HeadingBlocks \cup OtherBlocks

\* the first index of s from i on whose token is in S, 0 when there is none
RECURSIVE IndexFrom(_, _, _)
IndexFrom(s, i, S) ==
    IF i > Len(s) THEN 0 ELSE IF s[i] \in S THEN i ELSE IndexFrom(s, i + 1, S)

\* s.replace(/<open>([\s\S]*?)<close>/g, '<newOpen>$1<newClose>'): from the
\* left, each opening token is matched with the first closing token after it
\* and the scan goes on behind the match
RECURSIVE ReplacePairs(_, _, _, _, _, _)
ReplacePairs(s, i, opens, closes, newOpen, newClose) ==
    IF i > Len(s) THEN s
    ELSE IF s[i] \in opens /\ IndexFrom(s, i + 1, closes) # 0
    THEN LET j == IndexFrom(s, i + 1, closes)
         IN  ReplacePairs([s EXCEPT ![i] = newOpen, ![j] = newClose], j + 1,
                          opens, closes, newOpen, newClose)
    ELSE ReplacePairs(s, i + 1, opens, closes, newOpen, newClose)

\* s.replace(/<open>[\s\S]*?<close>/g, ''): each match is removed
RECURSIVE RemovePairs(_, _, _, _)
RemovePairs(s, i, opens, closes) ==
    IF i > Len(s) THEN s
    ELSE IF s[i] \in opens /\ IndexFrom(s, i + 1, closes) # 0
    THEN LET j == IndexFrom(s, i + 1, closes)
         IN  RemovePairs(SubSeq(s, 1, i - 1) \o SubSeq(s, j + 1, Len(s)), i,
                         opens, closes)
    ELSE RemovePairs(s, i + 1, opens, closes)

\* html.match(/<h1[^>]*>([\s\S]*?)<\/h1>/i): [from, to] of the first match,
\* from = 0 when there is none
RECURSIVE FirstMatch(_, _, _, _)
FirstMatch(s, i, opens, closes) ==
    IF i > Len(s) THEN [from |-> 0, to |-> 0]
    ELSE IF s[i] \in opens /\ IndexFrom(s, i + 1, closes) # 0
    THEN [from |-> i, to |-> IndexFrom(s, i + 1, closes)]
    ELSE FirstMatch(s, i + 1, opens, closes)

\* What String.prototype.replace makes of a replacement string: $$ in it
\* stands for one $.  cleanHeadingTags puts the heading's content into the
\* replacement string, so the content goes through this.
RECURSIVE Substitution(_)
Substitution(h1Content) ==
    IF h1Content = <<>> THEN <<>>
    ELSE <<IF Head(h1Content) = "$$" THEN "$" ELSE Head(h1Content)>>
         \o Substitution(Tail(h1Content))

\* the first <h1> becomes <dita-title>, the other <h1> become <b>, and the
\* whole is wrapped in <section>
TitleAndSection(s) ==
    LET m == FirstMatch(s, 1, OpenH1, CloseH1)
    IN  IF m.from = 0 THEN s
        ELSE LET h1Content == SubSeq(s, m.from + 1, m.to - 1)
                 titled    == SubSeq(s, 1, m.from - 1)
                              \o <<"<dita-title>">> \o Substitution(h1Content)
                              \o <<"</dita-title>">>
                              \o SubSeq(s, m.to + 1, Len(s))
             IN  <<"<section>">>
                 \o ReplacePairs(titled, 1, OpenH1, CloseH1, "<b>", "</b>")
                 \o <<"</section>">>

\* cleanHeadingTags(html), html not empty
CleanHeadingTags(s) ==
    LET noMarkers == RemovePairs(s, 1, {"<span mso-list:Ignore>"}, {"</span>"})
        demoted   == ReplacePairs(noMarkers, 1, OpenLower, CloseLower, "<b>", "</b>")
    IN  TitleAndSection(demoted)

\* ------------------------------------------------------------------------
\* List Reconstructor: convertMsoListToNestedLists (unwrapping, node scan)
\* ------------------------------------------------------------------------

\* A node of the parsed document: an element with its tag, its class, whether
\* its style holds mso-list, and its child nodes; or a text node (tag
\* "#text"), blank when it holds white space only.
Element(tag, cls, mso, kids) ==
    [tag |-> tag, cls |-> cls, mso |-> mso, blank |-> FALSE, kids |-> kids]

TextNode(blank) ==
    [tag |-> "#text", cls |-> "", mso |-> FALSE, blank |-> blank, kids |-> <<>>]

PlainPara == Element("p", "", FALSE, <<TextNode(FALSE)>>)

ListPara == Element("p", "", TRUE, <<TextNode(FALSE)>>)

LeafNodes == {TextNode(TRUE), TextNode(FALSE), PlainPara, ListPara}

\* <div class="section"> with 1 or 2 paragraphs
SectionDivs ==
    {Element("div", "section", FALSE, k) : k \in {<<PlainPara>>, <<PlainPara, PlainPara>>}}

\* <div class="document"> with 1 or 2 children, paragraphs or sections
DocumentDivs ==
    {Element("div", "document", FALSE, k) :
        k \in {<<a>> : a \in {PlainPara} \cup SectionDivs}
              \cup {<<a, b>> : a \in {PlainPara} \cup SectionDivs,
                             b \in {PlainPara} \cup SectionDivs}}

\* <table><tbody><tr><td>...</td></tr></tbody></table>
CellTable(kids) ==
    Element("table", "", FALSE,
            <<Element("tbody", "", FALSE,
                      <<Element("tr", "", FALSE,
                                <<Element("td", "", FALSE, kids)>>)>>)>>)

\* the nodes <body> may hold: a leaf, a table whose cell holds a list-marker
\* paragraph, a document div, or a document div inside another div
TopNodes ==
    LeafNodes \cup {CellTable(<<ListPara>>)} \cup DocumentDivs
    \cup {Element("div", "", FALSE,
                  <<Element("div", "document", FALSE,
                            <<PlainPara, Element("div", "section", FALSE, <<PlainPara>>)>>)>>)}

IsDocumentDiv(n) == n.tag = "div" /\ n.cls = "document"

IsSectionDiv(n) == n.tag = "div" /\ n.cls = "section"

\* documentDiv.querySelector('div.section') over the nodes of a subtree:
\* <<the first section div in document order>>, or <<>>
RECURSIVE FindSection(_)
FindSection(nodes) ==
    IF nodes = <<>> THEN <<>>
    ELSE IF IsSectionDiv(Head(nodes)) THEN <<Head(nodes)>>
    ELSE IF FindSection(Head(nodes).kids) # <<>> THEN FindSection(Head(nodes).kids)
    ELSE FindSection(Tail(nodes))

\* The first div.document in document order, if it holds a div.section, is
\* replaced by the children of that section: they are moved in front of the
\* document div, and the document div is removed with all it still holds.
\* hit tells whether a div.document was met in these nodes.
RECURSIVE UnwrapDocument(_)
UnwrapDocument(nodes) ==
    IF nodes = <<>> THEN [hit |-> FALSE, nodes |-> <<>>]
    ELSE LET n == Head(nodes)
         IN  IF IsDocumentDiv(n)
             THEN [hit |-> TRUE,
                   nodes |-> (IF FindSection(n.kids) = <<>> THEN <<n>>
                              ELSE FindSection(n.kids)[1].kids) \o Tail(nodes)]
             ELSE IF UnwrapDocument(n.kids).hit
             THEN [hit |-> TRUE,
                   nodes |-> <<[n EXCEPT !.kids = UnwrapDocument(n.kids).nodes]>>
                             \o Tail(nodes)]
             ELSE [hit |-> UnwrapDocument(Tail(nodes)).hit,
                   nodes |-> <<n>> \o UnwrapDocument(Tail(nodes)).nodes]

\* the child nodes of a <body> without container elements: text, paragraphs,
\* list-marker paragraphs with and without class, a heading
ScanLeaves ==
    LeafNodes \cup {Element("p", "MsoListParagraph", TRUE, <<TextNode(FALSE)>>),
                    Element("h1", "", FALSE, <<TextNode(FALSE)>>)}

\* isListPara: a <p> whose style holds mso-list
IsListPara(n) == n.tag = "p" /\ n.mso

\* node.nodeType === 3 && !node.textContent.trim()
IsBlankText(n) == n.tag = "#text" /\ n.blank

\* The list that replaces a buffer: kids are the paragraphs it was built
\* from; BufferToList gives the tree of its items.
ListOf(buf) ==
    [tag |-> "list", cls |-> "", mso |-> FALSE, blank |-> FALSE, kids |-> buf]

\* if (buffer.length) { newNodes.push(bufferToList(buffer)); buffer = [] }
FlushBuffer(st) ==
    IF st.buffer # <<>>
    THEN [newNodes |-> Append(st.newNodes, ListOf(st.buffer)), buffer |-> <<>>]
    ELSE st

\* a variant of ScanNode in which white space ends a run of list-marker
\* paragraphs
ScanNodeBlankFlushes(st, n) ==
    IF IsListPara(n) THEN [st EXCEPT !.buffer = Append(@, n)]
    ELSE [FlushBuffer(st) EXCEPT !.newNodes = Append(@, n)]

\* one turn of the loop over the child nodes of <body>
ScanNode(st, n) ==
    IF IsListPara(n) THEN [st EXCEPT !.buffer = Append(@, n)]
    ELSE IF IsBlankText(n)
    THEN (IF st.buffer = <<>> THEN [st EXCEPT !.newNodes = Append(@, n)] ELSE st)
    ELSE [FlushBuffer(st) EXCEPT !.newNodes = Append(@, n)]

RECURSIVE ScanNodes(_, _)
ScanNodes(st, nodes) ==
    IF nodes = <<>> THEN st ELSE ScanNodes(ScanNode(st, Head(nodes)), Tail(nodes))

\* convertMsoListToNestedLists: the child nodes of <body> it returns
ConvertMsoList(nodes) ==
    FlushBuffer(ScanNodes([newNodes |-> <<>>, buffer |-> <<>>],
                          UnwrapDocument(nodes).nodes)).newNodes

\* ------------------------------------------------------------------------
\* The pipeline run on its own output: cleanHtml and formatHtml applied to
\* formatHtml(cleanHtml(x)) for a document x that holds one table.
\* A markup string is a sequence of tag and text tokens (white space left
\* out), a parsed document a sequence of nodes.
\* ------------------------------------------------------------------------

\* a node of a parsed document; attrs is <<>> or holds one record
Node(tag, attrs, kids) == [tag |-> tag, attrs |-> attrs, kids |-> kids]

\* a text node with visible text
Text == Node("#text", <<>>, <<>>)

\* a token of a markup string: k is "open", "close", "empty" (<x/>) or "text"
Tok(k, tag, attrs) == [k |-> k, tag |-> tag, attrs |-> attrs]

\* What the first parse of cleanHtml (new JSDOM in
\* convertMsoListToNestedLists) gives for a source table: every cell holds
\* text, the rows of the <thead> come first.
CellNode(cell) == Node("td", <<cell>>, <<Text>>)

RowNode(row) == Node("tr", <<>>, [i \in 1..Len(row) |-> CellNode(row[i])])

SectionNode(tag, rows) ==
    IF rows = <<>> THEN <<>>
    ELSE <<Node(tag, <<>>, [i \in 1..Len(rows) |-> RowNode(rows[i])])>>

SourceTree(t) ==
    <<Node("table", <<>>,
           SectionNode("thead", HeadRows(t)) \o SectionNode("tbody", BodyRows(t)))>>

\* element.querySelectorAll(tag): the descendants with that tag, in
\* document order
RECURSIVE Descendants(_, _)
Descendants(n, tag) ==
    Flatten([i \in 1..Len(n.kids) |->
                (IF n.kids[i].tag = tag THEN <<n.kids[i]>> ELSE <<>>)
                \o Descendants(n.kids[i], tag)])

\* the rows and cells processTables reads off a <table> element
TableOf(n) ==
    LET trs    == Descendants(n, "tr")
        theads == Descendants(n, "thead")
    IN  [rows  |-> [i \in 1..Len(trs) |->
                       [j \in 1..Len(Descendants(trs[i], "td")) |->
                           Descendants(trs[i], "td")[j].attrs[1]]],
         nhead |-> IF theads = <<>> THEN 0 ELSE Len(Descendants(theads[1], "tr"))]

\* the attributes written on a <dita-entry>
EntryAttrs(e) == [morerows |-> e.morerows, namest |-> e.namest, nameend |-> e.nameend]

EntryNode(e) == Node("dita-entry", <<EntryAttrs(e)>>, IF e.pad THEN <<>> ELSE <<Text>>)

CalsRowNode(r) == Node("dita-row", <<>>, [i \in 1..Len(r) |-> EntryNode(r[i])])

CalsSection(tag, rows) ==
    IF rows = <<>> THEN <<>>
    ELSE <<Node(tag, <<>>, [i \in 1..Len(rows) |-> CalsRowNode(rows[i])])>>

\* newTable: the dita-table markup built for a converted table, as the
\* element that table.outerHTML = newTable puts in its place
CalsTree(c) ==
    Node("dita-table", <<>>,
         <<Node("dita-tgroup", <<[cols |-> c.cols]>>,
                [i \in 1..Len(c.colspecs) |->
                    Node("dita-colspec", <<c.colspecs[i]>>, <<>>)]
                \o CalsSection("dita-thead", c.thead)
                \o CalsSection("dita-tbody", c.tbody))>>)

\* processTables on a parsed document: innermost tables first, a table
\* without a cell in a <tr> is left as it is
RECURSIVE ProcessTablesIn(_)
ProcessTablesIn(n) ==
    LET m == [n EXCEPT !.kids = [i \in 1..Len(n.kids) |-> ProcessTablesIn(n.kids[i])]]
    IN  IF m.tag = "table" /\ ColCount(TableOf(m)) # 0
        THEN CalsTree(ConvertTable(TableOf(m)))
        ELSE m

ProcessTablesTree(nodes) == [i \in 1..Len(nodes) |-> ProcessTablesIn(nodes[i])]

\* child.textContent.trim() is not empty
\* a text node that holds white space only
Blank == Node("#text", <<"blank">>, <<>>)

\* child.textContent.trim() is not empty
RECURSIVE HasText(_)
HasText(n) ==
    \/ n.tag = "#text" /\ n # Blank
    \/ \E i \in 1..Len(n.kids) : HasText(n.kids[i])

PreserveTags == {"table", "thead", "tbody", "tr", "td", "th", "ul", "ol", "li"}

\* isEmpty: no text, no img and no br below the element
IsEmpty(n) ==
    ~HasText(n) /\ Descendants(n, "img") = <<>> /\ Descendants(n, "br") = <<>>

\* processElement of cleanEmptyTags: the child nodes an element keeps
RECURSIVE ProcessElement(_)
ProcessElement(kids) ==
    Flatten([i \in 1..Len(kids) |->
                IF kids[i].tag = "#text" THEN <<kids[i]>>
                ELSE LET child == [kids[i] EXCEPT !.kids = ProcessElement(@)]
                     IN  IF IsEmpty(child) /\ child.tag \notin PreserveTags
                         THEN <<>> ELSE <<child>>])

\* document.body.innerHTML
RECURSIVE Serialize(_)
Serialize(nodes) ==
    Flatten([i \in 1..Len(nodes) |->
                IF nodes[i].tag = "#text" THEN <<Tok("text", "#text", <<>>)>>
                ELSE <<Tok("open", nodes[i].tag, nodes[i].attrs)>>
                     \o Serialize(nodes[i].kids)
                     \o <<Tok("close", nodes[i].tag, <<>>)>>])

\* the tag names restoreDitaTags rewrites
DitaNames ==
    [dita |-> <<"dita-title", "dita-table", "dita-tgroup", "dita-thead",
                "dita-tbody", "dita-row", "dita-entry">>,
     plain |-> <<"title", "table", "tgroup", "thead", "tbody", "row", "entry">>]

RestoredName(tag) ==
    IF \E i \in 1..Len(DitaNames.dita) : DitaNames.dita[i] = tag
    THEN DitaNames.plain[CHOOSE i \in 1..Len(DitaNames.dita) : DitaNames.dita[i] = tag]
    ELSE tag

\* restoreDitaTags: dita-x becomes x, <dita-colspec ...></dita-colspec>
\* becomes the self-closing <colspec .../>
RECURSIVE RestoreDitaTags(_)
RestoreDitaTags(toks) ==
    IF toks = <<>> THEN <<>>
    ELSE IF /\ Len(toks) >= 2
            /\ toks[1].k = "open" /\ toks[1].tag = "dita-colspec"
            /\ toks[2].k = "close" /\ toks[2].tag = "dita-colspec"
    THEN <<Tok("empty", "colspec", toks[1].attrs)>>
         \o RestoreDitaTags(SubSeq(toks, 3, Len(toks)))
    ELSE <<[toks[1] EXCEPT !.tag = RestoredName(@)]>> \o RestoreDitaTags(Tail(toks))

\* new JSDOM(`<!DOCTYPE html><html><body>${html}</body></html>`): the tree
\* construction of the HTML parser for the tags the pipeline emits.  The
\* document under construction is a sequence of elements, element 1 the
\* <body>; open is the stack of open elements, mode the insertion mode.
DomNode(tag, attrs, parent) == [tag |-> tag, attrs |-> attrs, kids |-> <<>>, parent |-> parent]

ParserStart ==
    [dom |-> <<DomNode("body", <<>>, 0)>>, open |-> <<1>>, mode |-> "body"]

CurrentNode(ps) == ps.open[Len(ps.open)]

TableContext == {"table", "tbody", "tfoot", "thead", "tr"}

TableSections == {"tbody", "tfoot", "thead"}

\* end tags the "in table" insertion mode ignores
IgnoredInTable ==
    {"body", "caption", "col", "colgroup", "html", "tbody", "td", "tfoot",
     "th", "thead", "tr"}

\* the special elements among the tags of the model
SpecialTags == {"body", "table", "tbody", "tfoot", "thead", "tr", "td", "th"}

\* the position on the stack of the last open element with one of the tags,
\* 0 when there is none
LastOpen(ps, tags) ==
    LET at == {i \in 1..Len(ps.open) : ps.dom[ps.open[i]].tag \in tags}
    IN  IF at = {} THEN 0 ELSE CHOOSE i \in at : \A j \in at : j <= i

InsertBefore(kids, ref, id) ==
    LET p == CHOOSE i \in 1..Len(kids) : kids[i] = ref
    IN  SubSeq(kids, 1, p - 1) \o <<id>> \o SubSeq(kids, p, Len(kids))

\* insert a node at the appropriate place: with foster parenting on and a
\* table, tbody, tfoot, thead or tr as current node the node goes in front
\* of the last open table, otherwise it becomes the last child of the
\* current node
InsertNode(ps, tag, attrs, foster, push) ==
    LET id     == Len(ps.dom) + 1
        cur    == CurrentNode(ps)
        fp     == foster /\ ps.dom[cur].tag \in TableContext
        tbl    == ps.open[LastOpen(ps, {"table"})]
        parent == IF fp THEN ps.dom[tbl].parent ELSE cur
        kids   == IF fp THEN InsertBefore(ps.dom[parent].kids, tbl, id)
                  ELSE Append(ps.dom[parent].kids, id)
    IN  [ps EXCEPT !.dom  = Append([@ EXCEPT ![parent].kids = kids],
                                   DomNode(tag, attrs, parent)),
                   !.open = IF push THEN Append(@, id) ELSE @]

\* pop elements until the current node has one of the tags or is the <body>
ClearTo(ps, tags) ==
    [ps EXCEPT !.open = SubSeq(@, 1, Max(1, LastOpen(ps, tags)))]

\* "any other end tag" of the "in body" insertion mode, from stack position i
RECURSIVE EndTagFrom(_, _, _)
EndTagFrom(ps, tag, i) ==
    IF i < 1 THEN ps
    ELSE IF ps.dom[ps.open[i]].tag = tag
    THEN [ps EXCEPT !.open = SubSeq(@, 1, i - 1)]
    ELSE IF ps.dom[ps.open[i]].tag \in SpecialTags THEN ps
    ELSE EndTagFrom(ps, tag, i - 1)

\* the "in body" insertion mode; a self-closing flag on an element that is
\* not void is ignored, so <colspec .../> opens an element
InBody(ps, tok, foster) ==
    IF tok.k = "text" THEN InsertNode(ps, "#text", <<>>, foster, FALSE)
    ELSE IF tok.k = "close" THEN EndTagFrom(ps, tok.tag, Len(ps.open))
    ELSE IF tok.tag = "table"
    THEN [InsertNode(ps, "table", tok.attrs, FALSE, TRUE) EXCEPT !.mode = "table"]
    ELSE InsertNode(ps, tok.tag, tok.attrs, foster, TRUE)

\* the "in table" insertion mode
InTable(ps, tok) ==
    IF tok.k = "open" /\ tok.tag \in TableSections
    THEN [InsertNode(ClearTo(ps, {"table"}), tok.tag, tok.attrs, FALSE, TRUE)
             EXCEPT !.mode = "tablebody"]
    ELSE IF tok.k = "close" /\ tok.tag = "table"
    THEN (IF LastOpen(ps, {"table"}) = 0 THEN ps
          ELSE [ps EXCEPT !.open = SubSeq(@, 1, LastOpen(ps, {"table"}) - 1),
                          !.mode = "body"])
    ELSE IF tok.k = "close" /\ tok.tag \in IgnoredInTable THEN ps
    ELSE InBody(ps, tok, TRUE)

\* the "in table body" insertion mode
InTableBody(ps, tok) ==
    IF tok.k = "open" /\ tok.tag = "tr"
    THEN [InsertNode(ClearTo(ps, TableSections), "tr", tok.attrs, FALSE, TRUE)
             EXCEPT !.mode = "row"]
    ELSE IF tok.k = "close" /\ tok.tag \in TableSections
    THEN (IF LastOpen(ps, {tok.tag}) = 0 THEN ps
          ELSE [ps EXCEPT !.open = SubSeq(@, 1, LastOpen(ps, TableSections) - 1),
                          !.mode = "table"])
    ELSE IF (tok.k = "close" /\ tok.tag = "table")
            \/ (tok.k = "open" /\ tok.tag \in TableSections)
    THEN (IF LastOpen(ps, TableSections) = 0 THEN ps
          ELSE InTable([ps EXCEPT
                           !.open = SubSeq(@, 1, LastOpen(ps, TableSections) - 1),
                           !.mode = "table"], tok))
    ELSE InTable(ps, tok)

\* the "in row" insertion mode; the rows that reach a second parse hold no
\* cell, a table with a cell has been converted
InRow(ps, tok) ==
    IF tok.k = "close" /\ tok.tag = "tr"
    THEN (IF LastOpen(ps, {"tr"}) = 0 THEN ps
          ELSE [ps EXCEPT !.open = SubSeq(@, 1, LastOpen(ps, {"tr"}) - 1),
                          !.mode = "tablebody"])
    ELSE IF (tok.k = "close" /\ tok.tag \in TableSections \cup {"table"})
            \/ (tok.k = "open" /\ tok.tag \in TableSections \cup {"tr"})
    THEN (IF LastOpen(ps, {"tr"}) = 0 THEN ps
          ELSE InTableBody([ps EXCEPT
                               !.open = SubSeq(@, 1, LastOpen(ps, {"tr"}) - 1),
                               !.mode = "tablebody"], tok))
    ELSE InTable(ps, tok)

ParseToken(ps, tok) ==
    CASE ps.mode = "body"      -> InBody(ps, tok, FALSE)
      [] ps.mode = "table"     -> InTable(ps, tok)
      [] ps.mode = "tablebody" -> InTableBody(ps, tok)
      [] ps.mode = "row"       -> InRow(ps, tok)

RECURSIVE ParseTokens(_, _)
ParseTokens(ps, toks) ==
    IF toks = <<>> THEN ps ELSE ParseTokens(ParseToken(ps, Head(toks)), Tail(toks))

\* the parsed document as nodes, from element id down
RECURSIVE NodeOf(_, _)
NodeOf(dom, id) ==
    Node(dom[id].tag, dom[id].attrs,
         [i \in 1..Len(dom[id].kids) |-> NodeOf(dom, dom[id].kids[i])])

\* document.body.childNodes of the document parsed from a markup string
Parse(toks) == NodeOf(ParseTokens(ParserStart, toks).dom, 1).kids

\* cleanHtml from the first parsed document on, and formatHtml: of the
\* stages only cleanEmptyTags, processTables and restoreDitaTags change a
\* document that holds nothing but a table; formatHtml changes white space
CleanParsed(nodes) ==
    RestoreDitaTags(Serialize(ProcessTablesTree(ProcessElement(nodes))))

\* formatHtml(cleanHtml(html)) for a markup string
CleanAndFormat(toks) == CleanParsed(Parse(toks))

\* ------------------------------------------------------------------------
\* The stage sequence of cleanHtml and formatHtml, with failing stages.
\* Here a markup string is the set of the constructs it holds; a stage
\* removes or rewrites the constructs its code removes or rewrites.
\* ------------------------------------------------------------------------

\* constructs of pasted markup, one for each stage to act on
Constructs ==
    {"comment", "script", "color", "mso-list", "align", "font", "nbsp",
     "empty-attr", "div", "bold", "empty-p", "s", "span", "class", "table",
     "a", "h1", "b-b"}

\* the construct c, if present, is replaced by the constructs of new
Turn(h, c, new) == IF c \in h THEN (h \ {c}) \cup new ELSE h

\* a variant of Steps that runs processTables before convertDivToP and
\* cleanEmptyTags
StepsTablesEarly ==
    << [name |-> "basicTextCleanup",              call |-> 1,  ownCatch |-> FALSE],
       [name |-> "removeUnwantedTags",            call |-> 2,  ownCatch |-> FALSE],
       [name |-> "cleanSelectiveStyles",          call |-> 3,  ownCatch |-> TRUE],
       [name |-> "addListLevelClasses",           call |-> 4,  ownCatch |-> TRUE],
       [name |-> "cleanAlignAttributes",          call |-> 5,  ownCatch |-> TRUE],
       [name |-> "removeFontTags",                call |-> 6,  ownCatch |-> FALSE],
       [name |-> "convertMsoListToNestedLists",   call |-> 7,  ownCatch |-> TRUE],
       [name |-> "cleanSpecialCharacters",        call |-> 8,  ownCatch |-> FALSE],
       [name |-> "cleanEmptyAttributes",          call |-> 9,  ownCatch |-> FALSE],
       [name |-> "processTables",                 call |-> 16, ownCatch |-> TRUE],
       [name |-> "convertDivToP",                 call |-> 10, ownCatch |-> FALSE],
       [name |-> "cleanAllStyles",                call |-> 11, ownCatch |-> TRUE],
       [name |-> "cleanEmptyTags",                call |-> 12, ownCatch |-> TRUE],
       [name |-> "cleanLineBreaksAndDecorations", call |-> 13, ownCatch |-> FALSE],
       [name |-> "removeSpans",                   call |-> 14, ownCatch |-> TRUE],
       [name |-> "cleanClassAndIdAttributes",     call |-> 15, ownCatch |-> FALSE],
       [name |-> "linkConversion",                call |-> 16, ownCatch |-> FALSE],
       [name |-> "cleanHeadingTags",              call |-> 16, ownCatch |-> TRUE],
       [name |-> "mergeConsecutiveInlineTags",    call |-> 17, ownCatch |-> TRUE],
       [name |-> "restoreDitaTags",               call |-> 18, ownCatch |-> FALSE] >>

\* The steps in the order cleanHtml runs them.  call is the position of the
\* call in the body of cleanHtml: processTables, the link conversion and
\* cleanHeadingTags run inside the one call of
\* doExtraTransformJsdomCantHandle.  ownCatch tells whether the body of the
\* step is inside a try/catch of its own.
Steps ==
    << [name |-> "basicTextCleanup",              call |-> 1,  ownCatch |-> FALSE],
       [name |-> "removeUnwantedTags",            call |-> 2,  ownCatch |-> FALSE],
       [name |-> "cleanSelectiveStyles",          call |-> 3,  ownCatch |-> TRUE],
       [name |-> "addListLevelClasses",           call |-> 4,  ownCatch |-> TRUE],
       [name |-> "cleanAlignAttributes",          call |-> 5,  ownCatch |-> TRUE],
       [name |-> "removeFontTags",                call |-> 6,  ownCatch |-> FALSE],
       [name |-> "convertMsoListToNestedLists",   call |-> 7,  ownCatch |-> TRUE],
       [name |-> "cleanSpecialCharacters",        call |-> 8,  ownCatch |-> FALSE],
       [name |-> "cleanEmptyAttributes",          call |-> 9,  ownCatch |-> FALSE],
       [name |-> "convertDivToP",                 call |-> 10, ownCatch |-> FALSE],
       [name |-> "cleanAllStyles",                call |-> 11, ownCatch |-> TRUE],
       [name |-> "cleanEmptyTags",                call |-> 12, ownCatch |-> TRUE],
       [name |-> "cleanLineBreaksAndDecorations", call |-> 13, ownCatch |-> FALSE],
       [name |-> "removeSpans",                   call |-> 14, ownCatch |-> TRUE],
       [name |-> "cleanClassAndIdAttributes",     call |-> 15, ownCatch |-> FALSE],
       [name |-> "processTables",                 call |-> 16, ownCatch |-> TRUE],
       [name |-> "linkConversion",                call |-> 16, ownCatch |-> FALSE],
       [name |-> "cleanHeadingTags",              call |-> 16, ownCatch |-> TRUE],
       [name |-> "mergeConsecutiveInlineTags",    call |-> 17, ownCatch |-> TRUE],
       [name |-> "restoreDitaTags",               call |-> 18, ownCatch |-> FALSE] >>

\* what a step that completes makes of the markup h
StepEffect(name, h) ==
    CASE name = "basicTextCleanup"              -> h \ {"comment"}
      [] name = "removeUnwantedTags"            -> h \ {"script"}
      [] name = "cleanSelectiveStyles"          -> h \ {"color"}
      [] name = "addListLevelClasses"           ->
            IF "mso-list" \in h THEN h \cup {"list-level"} ELSE h
      [] name = "cleanAlignAttributes"          -> h \ {"align"}
      [] name = "removeFontTags"                -> h \ {"font"}
      [] name = "convertMsoListToNestedLists"   ->
            IF "mso-list" \in h THEN (h \ {"mso-list", "list-level"}) \cup {"ul"}
            ELSE h
      [] name = "cleanSpecialCharacters"        -> h \ {"nbsp"}
      [] name = "cleanEmptyAttributes"          -> h \ {"empty-attr"}
      [] name = "convertDivToP"                 -> Turn(h, "div", {"p"})
      [] name = "cleanAllStyles"                ->
            Turn(h, "bold", {"b"}) \ {"color", "mso-list"}
      [] name = "cleanEmptyTags"                -> h \ {"empty-p"}
      [] name = "cleanLineBreaksAndDecorations" -> h \ {"s"}
      [] name = "removeSpans"                   -> h \ {"span"}
      [] name = "cleanClassAndIdAttributes"     -> h \ {"class", "align", "list-level"}
      [] name = "processTables"                 -> Turn(h, "table", {"dita-table"})
      [] name = "linkConversion"                -> Turn(h, "a", {"xref"})
      [] name = "cleanHeadingTags"              ->
            Turn(h, "h1", {"dita-title", "section"})
      [] name = "mergeConsecutiveInlineTags"    -> Turn(h, "b-b", {"b"})
      [] name = "restoreDitaTags"               ->
            Turn(Turn(h, "dita-table", {"cals-table"}), "dita-title", {"title"})

\* a variant of CaughtResult whose handler returns the empty string
CaughtResultEmpty(name, h) == {{}}

\* What the catch of a step with a try/catch of its own can return for the
\* input h: the parameter html.  cleanHeadingTags assigns to html inside
\* its try, so a failure after the first <h1> became <dita-title> and
\* before the <section> was put around the markup returns that text.
CaughtResult(name, h) ==
    IF name = "cleanHeadingTags" THEN {h, Turn(h, "h1", {"dita-title"})} ELSE {h}

\* a variant of CleanHtmlCatchResult that returns the original argument
CleanHtmlCatchResultOriginal(current, original) == original

\* what the catch of cleanHtml returns: the variable html as the last
\* completed call left it
CleanHtmlCatchResult(current, original) == current

\* the constructs that formatHtml puts on lines of their own
BlockConstructs ==
    {"p", "div", "empty-p", "mso-list", "ul", "table", "dita-table",
     "cals-table", "section", "title"}

\* formatHtml: block-level markup is laid out on indented lines
FormatHtml(h) == IF h \cap BlockConstructs # {} THEN h \cup {"indented"} ELSE h

\* the name under which formatHtml is logged
FormatStep == [name |-> "formatHtml", call |-> Len(Steps) + 1, ownCatch |-> TRUE]

\* the steps that run inside doExtraTransformJsdomCantHandle
InExtra(k) == k \in 1..Len(Steps) /\ Steps[k].name \in {"processTables", "linkConversion", "cleanHeadingTags"}

\* the entries of the log whose step failed
FailedAt(lg) == {i \in 1..Len(lg) : lg[i].outcome # "ok"}

\* ------------------------------------------------------------------------
\* Concurrent invocations of transformContent (transformService.js).  An
\* invocation runs cleanHtml, writes the debug file (every await is a point
\* where another invocation can run, every file operation can fail), then
\* runs formatHtml.  Markup is a set of constructs, as above.
\* ------------------------------------------------------------------------

\* cleanHtml when no step fails: the steps from number k on applied to h
RECURSIVE StepsFrom(_, _)
StepsFrom(k, h) ==
    IF k > Len(Steps) THEN h ELSE StepsFrom(k + 1, StepEffect(Steps[k].name, h))

CleanHtml(h) == StepsFrom(1, h)

\* the markup the invocations are called with
Contents == {{"table"}, {"h1", "a"}, {"div", "b-b"}}

\* the names generateDebugHtml can give the file: the second of the clock
FileNames == {"debug_1", "debug_2"}

\* a file of the debug directory; files are kept oldest first
File(name, text) == [name |-> name, text |-> text]

HasFile(dir, name) == \E k \in 1..Len(dir.files) : dir.files[k].name = name

WithoutFile(files, name) == SelectSeq(files, LAMBDA f : f.name # name)

\* the debug directories an invocation can meet: missing, empty, or holding
\* files of earlier runs
StartDirs ==
    { [exists |-> FALSE, files |-> <<>>],
      [exists |-> TRUE,  files |-> <<>>],
      [exists |-> TRUE,  files |-> <<File("old_1", {}), File("old_2", {"p"})>>] }

\* for (let i = 1; i < fileStats.length; i++): the files to delete, all but
\* the newest
OldFiles(files) == [k \in 1..(Len(files) - 1) |-> files[k].name]

\* a variant of ReturnedHtml that formats what the debug file holds
ReturnedHtmlFromDebugFile(cleanedContent, dir, debugFile) ==
    IF debugFile # <<>> /\ HasFile(dir, debugFile[1])
    THEN FormatHtml((CHOOSE f \in {dir.files[k] : k \in 1..Len(dir.files)} :
                        f.name = debugFile[1]).text)
    ELSE FormatHtml(cleanedContent)

\* html: formattedContent, formatHtml(cleanedContent)
ReturnedHtml(cleanedContent, dir, debugFile) == FormatHtml(cleanedContent)

\* an invocation before it starts
NewRun(c) ==
    [content |-> c, cleaned |-> {}, pc |-> "start", todo |-> <<>>,
     debugFile |-> <<>>, html |-> {}]


\* ------------------------------------------------------------------------
\* cleanSelectiveStyles.  The value of a style attribute is the sequence of
\* pieces that split(';') yields; a piece is a sequence of tokens: a blank
\* " ", a property name, the colon, a value.
\* ------------------------------------------------------------------------

\* the pieces of the model's style attributes
Pieces ==
    { <<"mso-list", ":", "l0 level1 lfo1">>,
      <<" ", "margin-left", ":", "36.0pt">>,
      <<"font-weight", ":", " ", "bold">>,
      <<"FONT-WEIGHT", ":", "BOLDER", " ">>,
      <<"font-weight", ":", "normal">>,
      <<"font-style", ":", "italic">>,
      <<"text-decoration", ":", "underline">>,
      <<"width", ":", "100px">>,
      <<"color", ":", "red">>,
      <<" ">> }

StyleValues == UNION { [1..n -> Pieces] : n \in 0..MaxDeclarations }

\* the attribute is absent from the start tag
NoStyle == <<"none">>

\* the i flag of the regular expressions: the lower-case form of a token
Lower(tok) ==
    CASE tok = "FONT-WEIGHT" -> "font-weight"
      [] tok = "BOLDER" -> "bolder"
      [] OTHER -> tok

RECURSIVE TrimStart(_)
TrimStart(piece) ==
    IF piece # <<>> /\ Head(piece) = " " THEN TrimStart(Tail(piece)) ELSE piece

RECURSIVE TrimEnd(_)
TrimEnd(piece) ==
    IF piece # <<>> /\ piece[Len(piece)] = " "
    THEN TrimEnd(SubSeq(piece, 1, Len(piece) - 1)) ELSE piece

\* declaration.trim()
Trim(piece) == TrimEnd(TrimStart(piece))

\* /^name:/i
StartsWithName(declaration, name) ==
    /\ Len(declaration) >= 2
    /\ Lower(declaration[1]) = name
    /\ declaration[2] = ":"

\* /^name:\s*word/i: the value after the blanks begins with the word
StartsWithNameAndValue(declaration, name, words) ==
    /\ StartsWithName(declaration, name)
    /\ LET rest == TrimStart(SubSeq(declaration, 3, Len(declaration)))
       IN  rest # <<>> /\ Lower(Head(rest)) \in words

\* the values of the model that begin with bold, italic, underline
BoldValues == {"bold", "bolder"}
ItalicValues == {"italic"}
UnderlineValues == {"underline"}

\* a variant of HasMsoList that keeps every left margin
HasMsoListAlways(styleDeclarations) == TRUE

\* hasMsoList = styleDeclarations.some(d => /^mso-list:/i.test(d.trim()))
HasMsoList(styleDeclarations) ==
    \E k \in 1..Len(styleDeclarations) :
        StartsWithName(Trim(styleDeclarations[k]), "mso-list")

\* the condition under which a declaration is pushed to preserved
IsPreserved(declaration, hasMsoList) ==
    \/ StartsWithName(declaration, "mso-list")
    \/ (hasMsoList /\ StartsWithName(declaration, "margin-left"))
    \/ StartsWithNameAndValue(declaration, "font-weight", BoldValues)
    \/ StartsWithNameAndValue(declaration, "font-style", ItalicValues)
    \/ StartsWithNameAndValue(declaration, "text-decoration", UnderlineValues)
    \/ StartsWithName(declaration, "width")

\* for (let declaration of styleDeclarations): preserved after piece k on
RECURSIVE PreservedFrom(_, _, _, _)
PreservedFrom(styleDeclarations, k, hasMsoList, preserved) ==
    IF k > Len(styleDeclarations) THEN preserved
    ELSE LET declaration == Trim(styleDeclarations[k])
         IN  IF declaration = <<>>
             THEN PreservedFrom(styleDeclarations, k + 1, hasMsoList, preserved)
             ELSE IF IsPreserved(declaration, hasMsoList)
             THEN PreservedFrom(styleDeclarations, k + 1, hasMsoList,
                                Append(preserved, declaration))
             ELSE PreservedFrom(styleDeclarations, k + 1, hasMsoList, preserved)

\* the replacement of one style attribute: the preserved declarations, which
\* join('; ') separates, or no attribute
CleanSelectiveStyles(styles) ==
    LET preserved == PreservedFrom(styles, 1, HasMsoList(styles), <<>>)
    IN  IF Len(preserved) > 0 THEN preserved ELSE NoStyle


\* ------------------------------------------------------------------------
\* addListLevelClasses.  The markup is the sequence of its <p> start tags;
\* of a start tag the model keeps what the code reads: whether the style
\* holds 'mso-list:', the level number of the list-marker declaration, the
\* margin-left declaration and the class attribute.  Lengths are counted
\* in units of 0.00001, so that toFixed(4) rounds.
\* ------------------------------------------------------------------------

\* one unit of length: 1.0 is Unit
Unit == 100000

\* the margin-left declarations of the model: value and unit
Margins ==
    { [value |-> 36 * Unit + 1, unit |-> "pt"],
      [value |-> 36 * Unit + 2, unit |-> "pt"],
      [value |-> Unit \div 2,   unit |-> "in"],
      [value |-> 72 * Unit,     unit |-> "pt"] }

\* the level numbers a list-marker declaration holds (l0 level2 lfo1)
ExplicitLevels == 1..2

\* a class of a class attribute; list-level-n is [name |-> "list-level", n |-> n]
Class(name) == [name |-> name, n |-> 0]

LevelClass(level) == [name |-> "list-level", n |-> level]

\* <p> start tags with a list-marker style
ListParagraphs ==
    [mso : {TRUE}, level : {<<>>} \cup {<<n>> : n \in ExplicitLevels},
     margin : {<<>>} \cup {<<m>> : m \in Margins},
     class : {<<>>, <<Class("MsoListParagraph")>>}]

\* a <p> start tag whose style holds no list-marker declaration
OtherParagraph ==
    [mso |-> FALSE, level |-> <<>>, margin |-> <<[value |-> 72 * Unit, unit |-> "pt"]>>,
     class |-> <<>>]

Paragraphs == ListParagraphs \cup {OtherParagraph}

\* parseLengthToPt
ParseLengthToPt(value, unit) ==
    CASE unit = "in" -> value * 72
      [] unit = "cm" -> (value * 283465) \div 10000
      [] unit = "mm" -> (value * 283465) \div 100000
      [] unit = "pc" -> value * 12
      [] unit = "px" -> (value * 3) \div 4
      [] OTHER -> value

\* the margin of a start tag in pt; 0 when the style has no margin-left
MarginPt(para) ==
    IF para.margin = <<>> THEN 0
    ELSE ParseLengthToPt(para.margin[1].value, para.margin[1].unit)

\* first pass: marginValues, a Set of numbers
MarginValues(paras) ==
    { MarginPt(paras[k]) : k \in {i \in 1..Len(paras) : paras[i].mso} }

\* Array.from(marginValues).sort((a, b) => a - b)
RECURSIVE SortedMargins(_)
SortedMargins(values) ==
    IF values = {} THEN <<>>
    ELSE LET least == CHOOSE v \in values : \A w \in values : v <= w
         IN  <<least>> \o SortedMargins(values \ {least})

\* margin.toFixed(4), as a number of units
ToFixed4(pt) == ((pt + 5) \div 10) * 10

\* marginMap.get(key) after sortedMargins.forEach((margin, index) =>
\* marginMap.set(margin.toFixed(4), index + 1)): the last rank set for the
\* key, 0 for undefined
MarginMap(sortedMargins, key) ==
    LET ranks == {i \in 1..Len(sortedMargins) : ToFixed4(sortedMargins[i]) = key}
    IN  IF ranks = {} THEN 0 ELSE CHOOSE i \in ranks : \A j \in ranks : i >= j

\* the start tag with levelClass added to its class attribute
WithLevelClass(para, level) ==
    [para EXCEPT !.class = Append(@, LevelClass(level))]

\* the replace callback of the margin branch
MarginLevel(para, sortedMargins) ==
    LET found == MarginMap(sortedMargins, ToFixed4(MarginPt(para)))
    IN  IF found = 0 THEN 1 ELSE found

\* a variant of ExplicitLevelClass that adds list-level-1 whatever the level
\* number is
ExplicitLevelClassOne(para) ==
    IF para.level # <<>> THEN WithLevelClass(para, 1) ELSE para

\* the replace callback of the fallback branch
ExplicitLevelClass(para) ==
    IF para.level # <<>> THEN WithLevelClass(para, para.level[1]) ELSE para

\* useMargins = marginValues.size > 1
UseMargins(paras) == Cardinality(MarginValues(paras)) > 1

AddListLevelClasses(paras) ==
    IF UseMargins(paras)
    THEN LET sortedMargins == SortedMargins(MarginValues(paras))
         IN  [k \in 1..Len(paras) |->
                 IF paras[k].mso
                 THEN WithLevelClass(paras[k], MarginLevel(paras[k], sortedMargins))
                 ELSE paras[k]]
    ELSE [k \in 1..Len(paras) |->
             IF paras[k].mso THEN ExplicitLevelClass(paras[k]) ELSE paras[k]]

\* bufferToList: the level of a paragraph, read from its class attribute
\* (/list-level-(\d+)/), 1 without such a class
ClassLevel(para) ==
    LET marks == {k \in 1..Len(para.class) : para.class[k].name = "list-level"}
    IN  IF marks = {} THEN 1
        ELSE para.class[CHOOSE k \in marks : \A j \in marks : k <= j].n


\* ------------------------------------------------------------------------
\* getListType.  The marker text is a sequence of characters; characters
\* outside ASCII are written by their code point.
\* ------------------------------------------------------------------------

\* the characters of the model's markers
MarkerChars == {"a", "i", "X", "1", "2", "U+4E00", "U+2022", ".", ")", "-"}

\* markerSpan.textContent.trim() of the marker span, <<"none">> when the
\* paragraph has no marker span
NoMarker == <<"none">>

Markers == {NoMarker} \cup UNION { [1..n -> MarkerChars] : n \in 0..MaxMarker }

\* [a-zA-Z]
Letters == {"a", "i", "X"}

\* [0-9]
Digits == {"1", "2"}

\* [ivxlcdmIVXLCDM]
Romans == {"i", "X"}

\* [\u3007\u4e00-\u4e5d\u58f1-\u62fe]
CjkNumerals == {"U+4E00"}

\* [\u2022\u00b7\u00a7\u25CF\u25CB\u25E6\u2023\u2043]
Bullets == {"U+2022"}

\* /^[class]+\./: a run of characters of the class, then a full stop
RunThenStop(marker, class) ==
    \E n \in 1..(Len(marker) - 1) :
        /\ \A k \in 1..n : marker[k] \in class
        /\ marker[n + 1] = "."

\* /^[a-zA-Z][\.\)]/
LetterThenDelimiter(marker) ==
    Len(marker) >= 2 /\ marker[1] \in Letters /\ marker[2] \in {".", ")"}

GetListType(marker) ==
    IF marker = NoMarker THEN "ul"
    ELSE IF LetterThenDelimiter(marker) THEN "ol"
    ELSE IF RunThenStop(marker, Digits) THEN "ol"
    ELSE IF RunThenStop(marker, Romans) THEN "ol"
    ELSE IF RunThenStop(marker, CjkNumerals) THEN "ol"
    ELSE IF marker # <<>> /\ marker[1] \in Bullets THEN "ul"
    ELSE "ul"


\* ------------------------------------------------------------------------
\* Column widths: a table with a <colgroup> on its way through cleanHtml.
\* Of the steps in front of processTables, cleanSelectiveStyles and
\* cleanAllStyles keep the width declarations of table elements;
\* cleanEmptyTags works on the parsed document and is modelled by
\* ProcessElement.  A width is a number with a unit.
\* ------------------------------------------------------------------------

Width(value, unit) == [value |-> value, unit |-> unit]

\* the width attributes of the model: <<>> is no width
ColWidthAttrs == {<<>>, <<Width(75, "pt")>>}

CellWidthAttrs == {<<>>, <<Width(20, "%")>>, <<Width(50, "px")>>}

\* <col span=... style="width:...">
ColNode(span, width) == Node("col", <<[span |-> span, width |-> width]>>, <<>>)

ColNodes == {ColNode(span, width) : span \in SpanAttrs, width \in ColWidthAttrs}

\* <td colspan=... style="width:...">text</td>
WidthCell(colspan, width) ==
    Node("td", <<[colspan |-> colspan, width |-> width]>>, <<Text>>)

WidthCells == {WidthCell(colspan, width) : colspan \in SpanAttrs, width \in CellWidthAttrs}

\* <table><colgroup>cols</colgroup><tr>cells</tr></table>, the colgroup
\* being left out when hasGroup is false
WidthTable(hasGroup, cols, cells) ==
    Node("table", <<>>,
         (IF hasGroup THEN <<Node("colgroup", <<>>, cols)>> ELSE <<>>)
         \o <<Node("tr", <<>>, cells)>>)

\* table.querySelector(tag): <<the first descendant with the tag>> or <<>>
QuerySelector(n, tag) ==
    IF Descendants(n, tag) = <<>> THEN <<>> ELSE <<Descendants(n, tag)[1]>>

\* colCount of a table of this shape: the largest sum of colspans of a row
RECURSIVE SpanSum(_, _)
SpanSum(elements, field) ==
    IF elements = <<>> THEN 0
    ELSE SpanOf(Head(elements).attrs[1][field]) + SpanSum(Tail(elements), field)

WidthColCount(t) ==
    LET rows == Descendants(t, "tr")
    IN  SeqMax([i \in 1..Len(rows) |-> SpanSum(Descendants(rows[i], "td"), "colspan")])

\* step 1, for (const col of cols): colWidths after the cols from number i on
RECURSIVE FromColgroup(_, _, _, _, _)
FromColgroup(cols, i, colIndex, colWidths, colCount) ==
    IF i > Len(cols) THEN colWidths
    ELSE LET span  == SpanOf(cols[i].attrs[1].span)
             width == cols[i].attrs[1].width
             next  == [k \in 1..colCount |->
                          IF width # <<>> /\ k - 1 >= colIndex /\ k - 1 < colIndex + span
                          THEN width ELSE colWidths[k]]
         IN  FromColgroup(cols, i + 1, colIndex + span, next, colCount)

\* step 2, for (const cell of cells): colWidths after the cells of the first
\* row from number i on
RECURSIVE FromFirstRow(_, _, _, _, _)
FromFirstRow(cells, i, colIndex, colWidths, colCount) ==
    IF i > Len(cells) THEN colWidths
    ELSE LET colspan == SpanOf(cells[i].attrs[1].colspan)
             width   == cells[i].attrs[1].width
             next    == IF /\ colspan = 1 /\ width # <<>>
                           /\ colIndex < colCount /\ colWidths[colIndex + 1] = <<>>
                        THEN [colWidths EXCEPT ![colIndex + 1] = width]
                        ELSE colWidths
         IN  FromFirstRow(cells, i + 1, colIndex + colspan, next, colCount)

\* colWidths.map: '1*' without width, 20% -> 20*, a length to a rounded
\* number of pixels
NormalizeWidth(w) ==
    IF w = <<>> THEN Width(1, "*")
    ELSE IF w[1].unit = "%" THEN Width(w[1].value, "*")
    ELSE IF w[1].unit = "pt" THEN Width((w[1].value * 13333 + 5000) \div 10000, "")
    ELSE IF w[1].unit = "in" THEN Width(w[1].value * 96, "")
    ELSE IF w[1].unit = "pc" THEN Width(w[1].value * 16, "")
    ELSE Width(w[1].value, "")

\* colWidths of a <table> element, normalized
ColWidths(t) ==
    LET colCount == WidthColCount(t)
        none     == [k \in 1..colCount |-> <<>>]
        colgroup == QuerySelector(t, "colgroup")
        step1    == IF colgroup = <<>> THEN none
                    ELSE FromColgroup(Descendants(colgroup[1], "col"), 1, 0, none, colCount)
        firstRow == QuerySelector(t, "tr")
        step2    == IF (\E k \in 1..colCount : step1[k] = <<>>) /\ firstRow # <<>>
                    THEN FromFirstRow(Descendants(firstRow[1], "td"), 1, 0, step1, colCount)
                    ELSE step1
    IN  [k \in 1..colCount |-> NormalizeWidth(step2[k])]

\* the <dita-colspec> elements emitted for a <table> element
WidthColSpecs(t) ==
    [i \in 1..WidthColCount(t) |->
        [colnum |-> i, colname |-> <<"col", i>>, colwidth |-> ColWidths(t)[i]]]


\* ------------------------------------------------------------------------
\* processTables on a document with nested tables.  The document is the
\* <body> element; an element of it is named by its path, the child
\* numbers from <body> down.
\* ------------------------------------------------------------------------

\* <p>text</p> and <p><a>text</a></p>
Para == Node("p", <<>>, <<Text>>)

ParaLink == Node("p", <<>>, <<Node("a", <<>>, <<Text>>)>>)

\* what a cell of an innermost table holds
LeafContents == {<<Text>>, <<Para>>, <<ParaLink>>}

\* <table><tr><td>content</td>...</tr></table>
NestTable(contents) ==
    Node("table", <<>>,
         <<Node("tr", <<>>, [i \in 1..Len(contents) |-> Node("td", <<>>, contents[i])])>>)

\* the tables a cell of the outer table holds: one cell, or no row at all
InnerTables == {NestTable(<<c>>) : c \in LeafContents} \cup {Node("table", <<>>, <<>>)}

\* <ul><li>text</li></ul>
ItemList == Node("ul", <<>>, <<Node("li", <<>>, <<Text>>)>>)

\* what a cell of the outer table holds: text, a paragraph, a table, a
\* paragraph followed by a table, text beside a paragraph, a list, or a
\* paragraph followed by a list
OuterContents ==
    LeafContents \cup {<<t>> : t \in InnerTables} \cup {<<Para, t>> : t \in InnerTables}
    \cup {<<Text, Para>>, <<ItemList>>, <<Para, ItemList>>}

\* the element at a path
RECURSIVE NodeAt(_, _)
NodeAt(n, path) == IF path = <<>> THEN n ELSE NodeAt(n.kids[Head(path)], Tail(path))

\* the document with the element at a path replaced
RECURSIVE ReplaceAt(_, _, _)
ReplaceAt(n, path, new) ==
    IF path = <<>> THEN new
    ELSE [n EXCEPT !.kids[Head(path)] = ReplaceAt(@, Tail(path), new)]

\* document.querySelectorAll('table'): the paths of the tables below n, in
\* document order
RECURSIVE TablePaths(_, _)
TablePaths(n, path) ==
    Flatten([i \in 1..Len(n.kids) |->
                (IF n.kids[i].tag = "table" THEN <<Append(path, i)>> ELSE <<>>)
                \o TablePaths(n.kids[i], Append(path, i))])

\* Array.prototype.reverse
Reversed(s) == [i \in 1..Len(s) |-> s[Len(s) + 1 - i]]

\* p.children.length === 0 || every child is B, I, U, STRONG or EM
SimplePara(p) ==
    \A i \in 1..Len(p.kids) :
        p.kids[i].tag = "#text" \/ p.kids[i].tag \in {"b", "i", "u", "strong", "em"}

\* !p.textContent.trim() && p.children.length === 0
EmptyPara(p) == ~HasText(p) /\ \A i \in 1..Len(p.kids) : p.kids[i].tag = "#text"

\* cellContent of generateCalsRows: the child nodes of the emitted entry
CellContent(cell) ==
    LET pTags == Descendants(cell, "p")
    IN  IF pTags # <<>> /\ \A i \in 1..Len(pTags) : EmptyPara(pTags[i]) THEN <<>>
        ELSE IF pTags # <<>>
        THEN Flatten([i \in 1..Len(pTags) |->
                         IF SimplePara(pTags[i]) THEN pTags[i].kids ELSE <<pTags[i]>>])
        ELSE cell.kids

\* colCount, no cell having a colspan
NestColCount(t) ==
    LET rows == Descendants(t, "tr")
    IN  SeqMax([i \in 1..Len(rows) |-> Len(Descendants(rows[i], "td"))])

\* one <dita-row> of generateCalsRows, padded to colCount entries
NestRow(row, colCount) ==
    LET cells == Descendants(row, "td")
    IN  Node("dita-row", <<>>,
             [i \in 1..colCount |->
                 Node("dita-entry", <<>>,
                      IF i <= Len(cells) THEN CellContent(cells[i]) ELSE <<>>)])

\* newTable, as the element table.outerHTML = newTable puts in place of the
\* table: the dita- elements nest as they are written
NestCalsTree(t) ==
    LET colCount == NestColCount(t)
        rows     == Descendants(t, "tr")
    IN  Node("dita-table", <<>>,
             <<Node("dita-tgroup", <<[cols |-> colCount]>>,
                    [i \in 1..colCount |->
                        Node("dita-colspec", <<[colnum |-> i, colname |-> <<"col", i>>]>>, <<>>)]
                    \o <<Node("dita-tbody", <<>>,
                              [i \in 1..Len(rows) |-> NestRow(rows[i], colCount)])>>)>>)


\* ------------------------------------------------------------------------
\* Table Transformer: the header and body groups of processTables
\* ------------------------------------------------------------------------

\* The parsed <table> holds its <tr> elements in row sections: the parser
\* puts a <tr> written directly in the <table> into a <tbody>.
SectionTags == {"thead", "tbody", "tfoot"}

\* a <tr> with one plain cell; id is the text of the cell
SectionRow(id) == [id |-> id, cells |-> <<[rowspan |-> <<>>, colspan |-> <<>>]>>]

\* The sections of a table, in document order: section k has the tag tags[k]
\* and lens[k] rows; the rows are numbered in document order.
SectionsOf(tags, lens) ==
    [k \in 1..Len(tags) |->
        [tag  |-> tags[k],
         rows |-> [i \in 1..lens[k] |->
                      SectionRow(SeqSum(SubSeq(lens, 1, k - 1)) + i)]]]

\* table.querySelectorAll('tr'), also element.querySelectorAll('tr') of a section
RECURSIVE AllRows(_)
AllRows(secs) ==
    IF secs = <<>> THEN <<>> ELSE Head(secs).rows \o AllRows(Tail(secs))

\* table.querySelector(tag): the index of the first section with the tag, or 0
FirstSection(secs, tag) ==
    LET at == {k \in 1..Len(secs) : secs[k].tag = tag}
    IN  IF at = {} THEN 0 ELSE CHOOSE k \in at : \A j \in at : k <= j

\* headRows
SectionHeadRows(secs) ==
    LET thead == FirstSection(secs, "thead")
    IN  IF thead # 0 THEN secs[thead].rows ELSE <<>>

\* bodyRows: the rows of the first <tbody> when there is a <thead> and a
\* <tbody>, the rows outside the <thead> when there is no <tbody>, all rows
\* when there is no <thead>
SectionBodyRows(secs) ==
    LET thead == FirstSection(secs, "thead")
        tbody == FirstSection(secs, "tbody")
    IN  IF thead # 0
        THEN IF tbody # 0 THEN secs[tbody].rows
             ELSE AllRows([k \in 1..Len(secs) |->
                              IF k = thead THEN [secs[k] EXCEPT !.rows = <<>>]
                              ELSE secs[k]])
        ELSE AllRows(secs)

\* generateCalsRows(rows, colCount): a <dita-row> for each row, with the text
\* of its cell
SectionCalsRows(rows, colCount) ==
    LET entries == generateCalsRows([i \in 1..Len(rows) |-> rows[i].cells], colCount)
    IN  [i \in 1..Len(rows) |-> [id |-> rows[i].id, entries |-> entries[i]]]

NoGroups == [converted |-> FALSE, thead |-> <<>>, tbody |-> <<>>]

\* the body of tables.forEach for a table with sections
ConvertSections(secs) ==
    LET rows     == AllRows(secs)
        colCount == IF rows = <<>> THEN 0 ELSE 1
    IN  IF colCount = 0 THEN NoGroups
        ELSE [converted |-> TRUE,
              thead     |-> SectionCalsRows(SectionHeadRows(secs), colCount),
              tbody     |-> SectionCalsRows(SectionBodyRows(secs), colCount)]


\* ------------------------------------------------------------------------
\* Normalizer: cleanEmptyTags on documents with empty elements
\* ------------------------------------------------------------------------

\* the nodes without children: text, white space, <br> and <img>
EmptyLeaves == {Text, Blank, Node("br", <<>>, <<>>), Node("img", <<>>, <<>>)}

\* the elements that may have children: one tag of the preserve-list, two others
ContainerTags == {"div", "span", "ul"}

\* an element whose children are leaves
FlatElements ==
    UNION {{Node(tag, <<>>, kids) : kids \in [1..n -> EmptyLeaves]} :
              tag \in ContainerTags, n \in 0..MaxEmptyKids}


\* ------------------------------------------------------------------------
\* Link conversion of doExtraTransformJsdomCantHandle
\* ------------------------------------------------------------------------

\* an attribute of a start tag, written name="value"
Attr(name, value) == [name |-> name, value |-> value]

\* the attribute lists of the start tags of the input: none, a target, an
\* empty target, a name (a named anchor), a name and a target
LinkAttrs ==
    {<<>>, <<Attr("href", "u")>>, <<Attr("href", "")>>, <<Attr("name", "n")>>,
     <<Attr("name", "n"), Attr("href", "v")>>}

\* the tags of the input; of these <a and <area begin with "<a"
LinkTags == {"a", "b", "area"}
BeginWithA == {"a", "area"}

\* The serialized markup of one element: start tag, text, end tag; <area>
\* is a void element and is serialized as its start tag alone.
LinkElement(tag, attrs) ==
    IF tag = "area" THEN <<Tok("open", tag, attrs)>>
    ELSE <<Tok("open", tag, attrs), Tok("text", "#text", <<>>), Tok("close", tag, <<>>)>>

\* the attributes href="..." with a value of one character or more
Targets(attrs) == SelectSeq(attrs, LAMBDA a : a.name = "href" /\ a.value # "")

\* /<a[^>]*href="([^"]+)"[^>]*>/gi : a start tag that begins with <a and
\* holds href="..." with a value that is not empty; [^>]* is greedy, so $1
\* is the value of the last such attribute
MatchesAnchor(tok) ==
    tok.k = "open" /\ tok.tag \in BeginWithA /\ Targets(tok.attrs) # <<>>

XrefOpen(href) ==
    Tok("open", "xref",
        <<Attr("scope", "external"), Attr("format", "html"), Attr("href", href)>>)

\* .replace(/<a[^>]*href="([^"]+)"[^>]*>/gi, '<xref scope="external" format="html" href="$1">')
ReplaceAnchorOpen(tok) ==
    IF MatchesAnchor(tok)
    THEN XrefOpen(Targets(tok.attrs)[Len(Targets(tok.attrs))].value)
    ELSE tok

\* .replace(/<\/a>/gi, '</xref>')
ReplaceAnchorClose(tok) ==
    IF tok.k = "close" /\ tok.tag = "a" THEN Tok("close", "xref", <<>>) ELSE tok

\* step 2 of doExtraTransformJsdomCantHandle
ConvertLinks(toks) ==
    [i \in 1..Len(toks) |-> ReplaceAnchorClose(ReplaceAnchorOpen(toks[i]))]


\* ------------------------------------------------------------------------
\* Normalizer: mergeConsecutiveInlineTags
\* ------------------------------------------------------------------------

MergeTags == {"b", "i", "u"}

IsTextNode(n) == n.tag = "#text"

\* What the parser makes of adjacent runs of text: one text node, of white
\* space only when both runs are.
RECURSIVE JoinText(_)
JoinText(kids) ==
    IF Len(kids) < 2 THEN kids
    ELSE IF IsTextNode(kids[1]) /\ IsTextNode(kids[2])
    THEN JoinText(<<IF kids[1] = Blank /\ kids[2] = Blank THEN Blank ELSE Text>>
                  \o SubSeq(kids, 3, Len(kids)))
    ELSE <<kids[1]>> \o JoinText(Tail(kids))

\* body.innerHTML read as a tree again: adjacent text nodes are one run of text
RECURSIVE SerializedTree(_)
SerializedTree(kids) ==
    JoinText([i \in 1..Len(kids) |-> [kids[i] EXCEPT !.kids = SerializedTree(@)]])

\* step 1 of traverse: a child with the tag of the node is replaced by its
\* children, which are checked in turn (i--)
RECURSIVE UnwrapNested(_, _)
UnwrapNested(tag, kids) ==
    Flatten([i \in 1..Len(kids) |->
                IF kids[i].tag = tag THEN UnwrapNested(tag, kids[i].kids)
                ELSE <<kids[i]>>])

\* current.innerHTML += text: the content is serialized, extended and parsed
AppendInnerHtml(current, more) == [current EXCEPT !.kids = JoinText(@ \o more)]

\* step 2 of traverse, from index i (counted from 1) on
RECURSIVE MergeSiblings(_, _)
MergeSiblings(kids, i) ==
    IF i > Len(kids) THEN kids
    ELSE IF kids[i].tag \notin MergeTags THEN MergeSiblings(kids, i + 1)
    ELSE IF i + 1 > Len(kids) THEN kids
    ELSE LET white     == kids[i + 1] = Blank
             nextIndex == IF white THEN i + 2 ELSE i + 1
         IN  IF nextIndex > Len(kids) THEN kids
             ELSE IF kids[nextIndex].tag = kids[i].tag
             THEN MergeSiblings(
                      SubSeq(kids, 1, i - 1)
                      \o <<AppendInnerHtml(kids[i],
                              (IF white THEN <<Blank>> ELSE <<>>)
                              \o kids[nextIndex].kids)>>
                      \o SubSeq(kids, nextIndex + 1, Len(kids)), i)
             ELSE MergeSiblings(kids, i + 1)

\* traverse(node)
RECURSIVE Traverse(_)
Traverse(n) ==
    IF IsTextNode(n) THEN n
    ELSE LET unwrapped == IF n.tag \in MergeTags THEN UnwrapNested(n.tag, n.kids)
                          ELSE n.kids
             merged    == MergeSiblings(unwrapped, 1)
         IN  [n EXCEPT !.kids = [i \in 1..Len(merged) |-> Traverse(merged[i])]]

\* traverse(body); return body.innerHTML
MergeConsecutiveInlineTags(nodes) ==
    SerializedTree(Traverse(Node("body", <<>>, nodes)).kids)

\* The documents: the body holds one element, a <p> or a <b>, whose
\* children are text, white space or <b>/<i> elements, whose children are
\* text, white space or empty <b>/<i> elements.  A parsed document has no
\* two adjacent text nodes.
InlineTags == {"b", "i"}

NoAdjacentText(kids) ==
    \A i \in 1..(Len(kids) - 1) : ~(IsTextNode(kids[i]) /\ IsTextNode(kids[i + 1]))

InnerInline ==
    {Text, Blank} \cup
    UNION {{Node(tag, <<>>, kids) :
               kids \in {ks \in [1..n -> {Text, Blank, Node("b", <<>>, <<>>),
                                          Node("i", <<>>, <<>>)}] :
                            NoAdjacentText(ks)}} :
              tag \in InlineTags, n \in 0..2}


\* ------------------------------------------------------------------------
\* Formatter: formatHtml, token by token
\* ------------------------------------------------------------------------

\* html.split(/(<\/?[^>]+>)/g) gives tags and the text between them; the
\* empty strings between adjacent tags are skipped by the loop and left out
\* here.  A tag is Tok("open" / "close" / "empty", name, <<>>); a text is
\* Tok("text", "#text", chars) with chars the sequence of its characters.
WhiteChars == {" ", "\n"}

TextTok(chars) == Tok("text", "#text", chars)

BlockTags ==
    {"html", "body", "dita", "topic", "title", "shortdesc", "section", "p",
     "div", "table", "tgroup", "thead", "tbody", "row", "entry", "colspec",
     "ul", "ol", "li", "dl", "dlentry", "dt", "dd", "fig", "note", "lines",
     "pre", "dita-table", "dita-tgroup", "dita-thead", "dita-tbody",
     "dita-row", "dita-entry", "dita-colspec"}

\* the tags tried for single-line rendering
SimpleBlockTags == {"entry", "dita-entry", "p", "li", "title", "dt", "dd"}

\* tag.replace(/\s+/g, ' ')
RECURSIVE CollapseChars(_)
CollapseChars(chars) ==
    IF chars = <<>> THEN <<>>
    ELSE IF Head(chars) \in WhiteChars
    THEN IF Len(chars) >= 2 /\ chars[2] \in WhiteChars
         THEN CollapseChars(Tail(chars))
         ELSE <<" ">> \o CollapseChars(Tail(chars))
    ELSE <<Head(chars)>> \o CollapseChars(Tail(chars))

\* a variant of Collapsed that drops the text
CollapsedToNothing(tok) ==
    IF tok.k = "text" THEN TextTok(<<>>) ELSE tok

\* the text of a token with its white space collapsed; a tag as it is
Collapsed(tok) ==
    IF tok.k = "text" THEN TextTok(CollapseChars(tok.attrs)) ELSE tok

RECURSIVE TrimStartChars(_)
TrimStartChars(chars) ==
    IF chars # <<>> /\ Head(chars) \in WhiteChars THEN TrimStartChars(Tail(chars))
    ELSE chars

RECURSIVE TrimEndChars(_)
TrimEndChars(chars) ==
    IF chars # <<>> /\ chars[Len(chars)] \in WhiteChars
    THEN TrimEndChars(SubSeq(chars, 1, Len(chars) - 1))
    ELSE chars

\* the white space a line starts with is removed
RECURSIVE TrimLineStart(_)
TrimLineStart(line) ==
    IF line = <<>> \/ line[1].k # "text" THEN line
    ELSE IF TrimStartChars(line[1].attrs) = <<>> THEN TrimLineStart(Tail(line))
    ELSE <<TextTok(TrimStartChars(line[1].attrs))>> \o Tail(line)

\* the white space a line ends with is removed
RECURSIVE TrimLineEnd(_)
TrimLineEnd(line) ==
    IF line = <<>> \/ line[Len(line)].k # "text" THEN line
    ELSE IF TrimEndChars(line[Len(line)].attrs) = <<>>
    THEN TrimLineEnd(SubSeq(line, 1, Len(line) - 1))
    ELSE SubSeq(line, 1, Len(line) - 1)
         \o <<TextTok(TrimEndChars(line[Len(line)].attrs))>>

\* currentLine.trim()
TrimLine(line) == TrimLineEnd(TrimLineStart(line))

\* '  '.repeat(indent) + what + '\n'
Line(ind, what) == [indent |-> ind, toks |-> what]

\* flushLine: formatted after it
Flushed(text, ind, line) ==
    IF TrimLine(line) # <<>> THEN Append(text, Line(ind, TrimLine(line))) ELSE text

\* a variant of IndentAfterClose without the lower limit
IndentAfterCloseBelowZero(ind) == ind - 1

\* indent = Math.max(0, indent - 1)
IndentAfterClose(ind) == Max(0, ind - 1)

\* isSimpleBlock(startIndex, tagName): the scan from index j on
RECURSIVE SimpleScan(_, _, _, _)
SimpleScan(tags, j, tagName, balance) ==
    IF j > Len(tags) THEN FALSE
    ELSE IF tags[j].k = "text" THEN SimpleScan(tags, j + 1, tagName, balance)
    ELSE IF tags[j].tag = tagName
    THEN IF tags[j].k = "close"
         THEN IF balance - 1 = 0 THEN TRUE
              ELSE SimpleScan(tags, j + 1, tagName, balance - 1)
         ELSE IF tags[j].k # "empty"
              THEN SimpleScan(tags, j + 1, tagName, balance + 1)
              ELSE SimpleScan(tags, j + 1, tagName, balance)
    ELSE IF tags[j].tag \in BlockTags THEN FALSE
    ELSE SimpleScan(tags, j + 1, tagName, balance)

IsSimpleBlock(tags, startIndex, tagName) ==
    SimpleScan(tags, startIndex + 1, tagName, 1)

\* "Consume until close tag": the tokens put on the line from index j on,
\* and the index of the close tag the loop stops at
RECURSIVE Consume(_, _, _, _, _)
Consume(tags, j, tagName, balance, taken) ==
    IF j > Len(tags) THEN [toks |-> taken, at |-> j]
    ELSE IF tags[j].k = "close" /\ tags[j].tag = tagName /\ balance - 1 = 0
    THEN [toks |-> Append(taken, tags[j]), at |-> j]
    ELSE Consume(tags, j + 1, tagName,
                 IF tags[j].k = "close" /\ tags[j].tag = tagName THEN balance - 1
                 ELSE IF tags[j].k = "open" /\ tags[j].tag = tagName THEN balance + 1
                 ELSE balance,
                 Append(taken, Collapsed(tags[j])))

\* the tokens of the markup handed to formatHtml
FormatTokens ==
    {Tok("open", "p", <<>>), Tok("close", "p", <<>>),
     Tok("open", "ul", <<>>), Tok("close", "ul", <<>>),
     Tok("open", "b", <<>>), Tok("empty", "colspec", <<>>),
     TextTok(<<"a", " ", "\n", "b">>), TextTok(<<" ", "c">>), TextTok(<<"\n", " ">>)}

\* split never gives two texts in a row
NoTextTwice(tags) ==
    \A i \in 1..(Len(tags) - 1) : ~(tags[i].k = "text" /\ tags[i + 1].k = "text")

\* ------------------------------------------------------------------------
\* Specifications: one per part of the pipeline; the variables of the other
\* parts stay idle
\* ------------------------------------------------------------------------

TableIdle == table = [rows |-> <<>>, nhead |-> 0] /\ cals = NotConverted /\ tpc = "idle"

ListIdle == buffer = <<>> /\ tree = NoTree /\ lpc = "idle"

HeadIdle == headIn = <<>> /\ headOut = <<>> /\ hpc = "idle"

ScanIdle == body = <<>> /\ newBody = <<>> /\ spc = "idle"

RerunIdle == doc = <<>> /\ out1 = <<>> /\ out2 = <<>> /\ rpc = "idle"

PipeIdle ==
    /\ content = {} /\ html = {} /\ inner = {} /\ cleaned = {} /\ result = {}
    /\ step = 0 /\ phase = "idle" /\ log = <<>>

ConcIdle == debugDir = [exists |-> FALSE, files |-> <<>>] /\ runs = <<>>

StyleIdle == styleIn = <<>> /\ styleOut = <<>> /\ stpc = "idle"

LevelIdle == startTags = <<>> /\ classed = <<>> /\ vpc = "idle"

KindIdle == markerText = <<>> /\ listKind = "" /\ kpc = "idle"

WidthIdle == widthDoc = <<>> /\ widthTree = <<>> /\ colspecs = <<>> /\ wpc = "idle"

NestIdle == nestIn = <<>> /\ nestDoc = <<>> /\ tablesLeft = <<>> /\ npc = "idle"

SectIdle == sectTable = <<>> /\ groups = NoGroups /\ gpc = "idle"

EmptyIdle == emptyIn = <<>> /\ emptyOut = <<>> /\ epc = "idle"

LinkIdle == linkIn = <<>> /\ linkOut = <<>> /\ xpc = "idle"

MergeIdle == mergeIn = <<>> /\ mergeOut = <<>> /\ mpc = "idle"

FormatIdle == 
    /\ fmtTags = <<>> /\ fmtIndex = 0 /\ indent = 0 /\ currentLine = <<>>
    /\ formatted = <<>> /\ fpc = "idle"

InitTable ==
    /\ \E r \in 0..MaxRows : \E lens \in RowLengths(r) :
          \E cells \in [1..SeqSum(lens) -> Cells] : \E nhead \in {0, 1} :
              table = SourceTable(lens, cells, nhead)
    /\ cals = NotConverted /\ tpc = "src"
    /\ ListIdle /\ HeadIdle /\ ScanIdle /\ RerunIdle /\ PipeIdle /\ ConcIdle /\ StyleIdle /\ LevelIdle /\ KindIdle /\ WidthIdle /\ NestIdle /\ SectIdle /\ EmptyIdle /\ LinkIdle /\ MergeIdle /\ FormatIdle

processTables ==
    /\ tpc = "src"
    /\ cals' = ConvertTable(table)
    /\ tpc' = "done"
    /\ UNCHANGED <<table, listVars, headVars, scanVars, rerunVars, pipeVars, concVars, styleVars, levelVars, kindVars, widthVars, nestVars, sectVars, emptyVars, linkVars, mergeVars, formatVars>>

NextTable == processTables

SpecTable == InitTable /\ [][NextTable]_vars

InitList ==
    /\ \E n \in 1..MaxItems : buffer \in Buffers(n)
    /\ tree = NoTree /\ lpc = "src"
    /\ TableIdle /\ HeadIdle /\ ScanIdle /\ RerunIdle /\ PipeIdle /\ ConcIdle /\ StyleIdle /\ LevelIdle /\ KindIdle /\ WidthIdle /\ NestIdle /\ SectIdle /\ EmptyIdle /\ LinkIdle /\ MergeIdle /\ FormatIdle

bufferToList ==
    /\ lpc = "src"
    /\ tree' = BufferToList(buffer)
    /\ lpc' = "done"
    /\ UNCHANGED <<buffer, tableVars, headVars, scanVars, rerunVars, pipeVars, concVars, styleVars, levelVars, kindVars, widthVars, nestVars, sectVars, emptyVars, linkVars, mergeVars, formatVars>>

NextList == bufferToList

SpecList == InitList /\ [][NextList]_vars

\* the markup is not empty: cleanHeadingTags returns '' for empty markup
InitHead ==
    /\ \E n \in 1..MaxBlocks : \E bs \in [1..n -> Blocks] : headIn = Flatten(bs)
    /\ headOut = <<>> /\ hpc = "src"
    /\ TableIdle /\ ListIdle /\ ScanIdle /\ RerunIdle /\ PipeIdle /\ ConcIdle /\ StyleIdle /\ LevelIdle /\ KindIdle /\ WidthIdle /\ NestIdle /\ SectIdle /\ EmptyIdle /\ LinkIdle /\ MergeIdle /\ FormatIdle

cleanHeadingTags ==
    /\ hpc = "src"
    /\ headOut' = CleanHeadingTags(headIn)
    /\ hpc' = "done"
    /\ UNCHANGED <<headIn, tableVars, listVars, scanVars, rerunVars, pipeVars, concVars, styleVars, levelVars, kindVars, widthVars, nestVars, sectVars, emptyVars, linkVars, mergeVars, formatVars>>

NextHead == cleanHeadingTags

SpecHead == InitHead /\ [][NextHead]_vars

\* the markup is not empty: convertMsoListToNestedLists returns '' otherwise
InitScan ==
    /\ \/ \E n \in 1..MaxTop : body \in [1..n -> TopNodes]
       \/ \E n \in 1..MaxLeaves : body \in [1..n -> ScanLeaves]
    /\ newBody = <<>> /\ spc = "src"
    /\ TableIdle /\ ListIdle /\ HeadIdle /\ RerunIdle /\ PipeIdle /\ ConcIdle /\ StyleIdle /\ LevelIdle /\ KindIdle /\ WidthIdle /\ NestIdle /\ SectIdle /\ EmptyIdle /\ LinkIdle /\ MergeIdle /\ FormatIdle

convertMsoListToNestedLists ==
    /\ spc = "src"
    /\ newBody' = ConvertMsoList(body)
    /\ spc' = "done"
    /\ UNCHANGED <<body, tableVars, listVars, headVars, rerunVars, pipeVars, concVars, styleVars, levelVars, kindVars, widthVars, nestVars, sectVars, emptyVars, linkVars, mergeVars, formatVars>>

NextScan == convertMsoListToNestedLists

SpecScan == InitScan /\ [][NextScan]_vars

\* the document holds one source table
InitRerun ==
    /\ \E r \in 0..MaxRows : \E lens \in RowLengths(r) :
          \E cells \in [1..SeqSum(lens) -> Cells] : \E nhead \in {0, 1} :
              doc = SourceTree(SourceTable(lens, cells, nhead))
    /\ out1 = <<>> /\ out2 = <<>> /\ rpc = "src"
    /\ TableIdle /\ ListIdle /\ HeadIdle /\ ScanIdle /\ PipeIdle /\ ConcIdle /\ StyleIdle /\ LevelIdle /\ KindIdle /\ WidthIdle /\ NestIdle /\ SectIdle /\ EmptyIdle /\ LinkIdle /\ MergeIdle /\ FormatIdle

\* transformContent on x: cleanHtml, then formatHtml
firstRun ==
    /\ rpc = "src"
    /\ out1' = CleanParsed(doc)
    /\ rpc' = "once"
    /\ UNCHANGED <<doc, out2, tableVars, listVars, headVars, scanVars, pipeVars, concVars, styleVars, levelVars, kindVars, widthVars, nestVars, sectVars, emptyVars, linkVars, mergeVars, formatVars>>

\* transformContent on the markup the first run returned
secondRun ==
    /\ rpc = "once"
    /\ out2' = CleanAndFormat(out1)
    /\ rpc' = "twice"
    /\ UNCHANGED <<doc, out1, tableVars, listVars, headVars, scanVars, pipeVars, concVars, styleVars, levelVars, kindVars, widthVars, nestVars, sectVars, emptyVars, linkVars, mergeVars, formatVars>>

NextRerun == firstRun \/ secondRun

SpecRerun == InitRerun /\ [][NextRerun]_vars

\* the markup holds at most MaxConstructs constructs
InitPipe ==
    /\ \E n \in 0..MaxConstructs : \E f \in [1..n -> Constructs] :
          content = {f[i] : i \in 1..n}
    /\ html = content /\ inner = {} /\ cleaned = {} /\ result = {}
    /\ step = 1 /\ phase = "clean" /\ log = <<>>
    /\ TableIdle /\ ListIdle /\ HeadIdle /\ ScanIdle /\ RerunIdle /\ ConcIdle /\ StyleIdle /\ LevelIdle /\ KindIdle /\ WidthIdle /\ NestIdle /\ SectIdle /\ EmptyIdle /\ LinkIdle /\ MergeIdle /\ FormatIdle

\* the markup the step about to run is called with: the parameter html of
\* doExtraTransformJsdomCantHandle inside it, the variable html of cleanHtml
\* otherwise
StepInput == IF InExtra(step) /\ InExtra(step - 1) THEN inner ELSE html

\* the step returned out: inside doExtraTransformJsdomCantHandle the value
\* goes to its parameter, everywhere else (and when it returns) to the
\* variable html of cleanHtml
StepReturns(out, outcome) ==
    /\ IF InExtra(step) /\ InExtra(step + 1)
       THEN inner' = out /\ html' = html
       ELSE html' = out /\ inner' = inner
    /\ log' = Append(log, [step |-> Steps[step], outcome |-> outcome,
                           in |-> StepInput, out |-> out])
    /\ step' = step + 1
    /\ UNCHANGED <<content, cleaned, result, phase>>

\* html = stage(html): the step completes
cleanHtmlStage ==
    /\ phase = "clean" /\ step <= Len(Steps)
    /\ StepReturns(StepEffect(Steps[step].name, StepInput), "ok")
    /\ UNCHANGED <<tableVars, listVars, headVars, scanVars, rerunVars, concVars, styleVars, levelVars, kindVars, widthVars, nestVars, sectVars, emptyVars, linkVars, mergeVars, formatVars>>

\* the step fails inside its own try: its catch returns
cleanHtmlStageCatch ==
    /\ phase = "clean" /\ step <= Len(Steps)
    /\ Steps[step].ownCatch
    /\ Cardinality(FailedAt(log)) < MaxFailures
    /\ \E out \in CaughtResult(Steps[step].name, StepInput) :
          StepReturns(out, "caught")
    /\ UNCHANGED <<tableVars, listVars, headVars, scanVars, rerunVars, concVars, styleVars, levelVars, kindVars, widthVars, nestVars, sectVars, emptyVars, linkVars, mergeVars, formatVars>>

\* the step fails and has no try of its own: the exception reaches the
\* catch of cleanHtml, which returns
cleanHtmlCatch ==
    /\ phase = "clean" /\ step <= Len(Steps)
    /\ ~Steps[step].ownCatch
    /\ Cardinality(FailedAt(log)) < MaxFailures
    /\ cleaned' = CleanHtmlCatchResult(html, content)
    /\ log' = Append(log, [step |-> Steps[step], outcome |-> "raised",
                           in |-> StepInput, out |-> StepInput])
    /\ phase' = "format"
    /\ UNCHANGED <<content, html, inner, result, step>>
    /\ UNCHANGED <<tableVars, listVars, headVars, scanVars, rerunVars, concVars, styleVars, levelVars, kindVars, widthVars, nestVars, sectVars, emptyVars, linkVars, mergeVars, formatVars>>

\* return html, after the last step
cleanHtmlReturn ==
    /\ phase = "clean" /\ step = Len(Steps) + 1
    /\ cleaned' = html
    /\ phase' = "format"
    /\ UNCHANGED <<content, html, inner, result, step, log>>
    /\ UNCHANGED <<tableVars, listVars, headVars, scanVars, rerunVars, concVars, styleVars, levelVars, kindVars, widthVars, nestVars, sectVars, emptyVars, linkVars, mergeVars, formatVars>>

\* formatHtml(cleanedContent) completes
formatHtml ==
    /\ phase = "format"
    /\ result' = FormatHtml(cleaned)
    /\ log' = Append(log, [step |-> FormatStep, outcome |-> "ok",
                           in |-> cleaned, out |-> FormatHtml(cleaned)])
    /\ phase' = "done"
    /\ UNCHANGED <<content, html, inner, cleaned, step>>
    /\ UNCHANGED <<tableVars, listVars, headVars, scanVars, rerunVars, concVars, styleVars, levelVars, kindVars, widthVars, nestVars, sectVars, emptyVars, linkVars, mergeVars, formatVars>>

\* formatHtml fails: its catch returns its argument
formatHtmlCatch ==
    /\ phase = "format"
    /\ Cardinality(FailedAt(log)) < MaxFailures
    /\ result' = cleaned
    /\ log' = Append(log, [step |-> FormatStep, outcome |-> "caught",
                           in |-> cleaned, out |-> cleaned])
    /\ phase' = "done"
    /\ UNCHANGED <<content, html, inner, cleaned, step>>
    /\ UNCHANGED <<tableVars, listVars, headVars, scanVars, rerunVars, concVars, styleVars, levelVars, kindVars, widthVars, nestVars, sectVars, emptyVars, linkVars, mergeVars, formatVars>>

NextPipe ==
    \/ cleanHtmlStage
    \/ cleanHtmlStageCatch
    \/ cleanHtmlCatch
    \/ cleanHtmlReturn
    \/ formatHtml
    \/ formatHtmlCatch

SpecPipe == InitPipe /\ [][NextPipe]_vars

InitConc ==
    /\ debugDir \in StartDirs
    /\ \E cs \in [1..MaxInvocations -> Contents] :
          runs = [i \in 1..MaxInvocations |-> NewRun(cs[i])]
    /\ TableIdle /\ ListIdle /\ HeadIdle /\ ScanIdle /\ RerunIdle /\ PipeIdle /\ StyleIdle /\ LevelIdle /\ KindIdle /\ WidthIdle /\ NestIdle /\ SectIdle /\ EmptyIdle /\ LinkIdle /\ MergeIdle /\ FormatIdle

\* const cleanedContent = cleanHtml(content), up to the first await
cleanContent(i) ==
    /\ runs[i].pc = "start"
    /\ runs' = [runs EXCEPT ![i].cleaned = CleanHtml(runs[i].content),
                            ![i].pc = "access"]
    /\ UNCHANGED debugDir

\* await fs.access(DEBUG_DIR), and fs.mkdir when the directory is missing
accessDir(i) ==
    /\ runs[i].pc = "access"
    /\ \E ok \in BOOLEAN :
          IF debugDir.exists /\ ok
          THEN /\ runs' = [runs EXCEPT ![i].pc = "readdir"]
               /\ UNCHANGED debugDir
          ELSE /\ runs' = [runs EXCEPT ![i].pc = "write"]
               /\ debugDir' = [debugDir EXCEPT !.exists = @ \/ ok]

\* await fs.readdir(DEBUG_DIR)
readDir(i) ==
    /\ runs[i].pc = "readdir"
    /\ \E ok \in BOOLEAN :
          IF ok /\ debugDir.files # <<>>
          THEN runs' = [runs EXCEPT ![i].todo = OldFiles(debugDir.files),
                                    ![i].pc = "stat"]
          ELSE runs' = [runs EXCEPT ![i].pc = "write"]
    /\ UNCHANGED debugDir

\* await Promise.all(files.map(fs.stat)): fails when a listed file is gone
statFiles(i) ==
    /\ runs[i].pc = "stat"
    /\ \E ok \in BOOLEAN :
          IF /\ ok
             /\ \A k \in 1..Len(runs[i].todo) : HasFile(debugDir, runs[i].todo[k])
             /\ runs[i].todo # <<>>
          THEN runs' = [runs EXCEPT ![i].pc = "unlink"]
          ELSE runs' = [runs EXCEPT ![i].pc = "write", ![i].todo = <<>>]
    /\ UNCHANGED debugDir

\* await fs.unlink(fileStats[i].path): fails when the file is gone
unlinkFile(i) ==
    /\ runs[i].pc = "unlink"
    /\ \E ok \in BOOLEAN :
          IF ok /\ HasFile(debugDir, Head(runs[i].todo))
          THEN /\ debugDir' = [debugDir EXCEPT
                                  !.files = WithoutFile(@, Head(runs[i].todo))]
               /\ runs' = [runs EXCEPT
                              ![i].todo = Tail(@),
                              ![i].pc = IF Tail(runs[i].todo) = <<>> THEN "write"
                                        ELSE "unlink"]
          ELSE /\ runs' = [runs EXCEPT ![i].pc = "write", ![i].todo = <<>>]
               /\ UNCHANGED debugDir

\* await fs.writeFile(filePath, debugHtml): the file path, or null
writeDebugFile(i) ==
    /\ runs[i].pc = "write"
    /\ \E name \in FileNames : \E ok \in BOOLEAN :
          IF ok /\ debugDir.exists
          THEN /\ debugDir' = [debugDir EXCEPT
                                  !.files = Append(WithoutFile(@, name),
                                                   File(name, runs[i].cleaned))]
               /\ runs' = [runs EXCEPT ![i].debugFile = <<name>>, ![i].pc = "format"]
          ELSE /\ runs' = [runs EXCEPT ![i].pc = "format"]
               /\ UNCHANGED debugDir

\* const formattedContent = formatHtml(cleanedContent); return { html: ... }
formatContent(i) ==
    /\ runs[i].pc = "format"
    /\ runs' = [runs EXCEPT
                   ![i].html = ReturnedHtml(runs[i].cleaned, debugDir, runs[i].debugFile),
                   ![i].pc = "done"]
    /\ UNCHANGED debugDir

NextConc ==
    /\ \E i \in 1..MaxInvocations :
          \/ cleanContent(i)
          \/ accessDir(i)
          \/ readDir(i)
          \/ statFiles(i)
          \/ unlinkFile(i)
          \/ writeDebugFile(i)
          \/ formatContent(i)
    /\ UNCHANGED <<tableVars, listVars, headVars, scanVars, rerunVars, pipeVars, styleVars, levelVars, kindVars, widthVars, nestVars, sectVars, emptyVars, linkVars, mergeVars, formatVars>>

SpecConc == InitConc /\ [][NextConc]_vars

InitStyle ==
    /\ styleIn \in StyleValues
    /\ styleOut = NoStyle /\ stpc = "src"
    /\ TableIdle /\ ListIdle /\ HeadIdle /\ ScanIdle /\ RerunIdle /\ PipeIdle /\ ConcIdle /\ LevelIdle /\ KindIdle /\ WidthIdle /\ NestIdle /\ SectIdle /\ EmptyIdle /\ LinkIdle /\ MergeIdle /\ FormatIdle

cleanSelectiveStyles ==
    /\ stpc = "src"
    /\ styleOut' = CleanSelectiveStyles(styleIn)
    /\ stpc' = "cleaned"
    /\ UNCHANGED <<styleIn, tableVars, listVars, headVars, scanVars, rerunVars, pipeVars, concVars, levelVars, kindVars, widthVars, nestVars, sectVars, emptyVars, linkVars, mergeVars, formatVars>>

NextStyle == cleanSelectiveStyles

SpecStyle == InitStyle /\ [][NextStyle]_vars

InitLevel ==
    /\ \E n \in 0..MaxParagraphs : \E ps \in [1..n -> Paragraphs] : startTags = ps
    /\ classed = <<>> /\ vpc = "src"
    /\ TableIdle /\ ListIdle /\ HeadIdle /\ ScanIdle /\ RerunIdle /\ PipeIdle /\ ConcIdle /\ StyleIdle /\ KindIdle /\ WidthIdle /\ NestIdle /\ SectIdle /\ EmptyIdle /\ LinkIdle /\ MergeIdle /\ FormatIdle

addListLevelClasses ==
    /\ vpc = "src"
    /\ classed' = AddListLevelClasses(startTags)
    /\ vpc' = "classed"
    /\ UNCHANGED <<startTags, tableVars, listVars, headVars, scanVars, rerunVars, pipeVars, concVars, styleVars, kindVars, widthVars, nestVars, sectVars, emptyVars, linkVars, mergeVars, formatVars>>

NextLevel == addListLevelClasses

SpecLevel == InitLevel /\ [][NextLevel]_vars

InitKind ==
    /\ markerText \in Markers
    /\ listKind = "" /\ kpc = "src"
    /\ TableIdle /\ ListIdle /\ HeadIdle /\ ScanIdle /\ RerunIdle /\ PipeIdle /\ ConcIdle /\ StyleIdle /\ LevelIdle /\ WidthIdle /\ NestIdle /\ SectIdle /\ EmptyIdle /\ LinkIdle /\ MergeIdle /\ FormatIdle

getListType ==
    /\ kpc = "src"
    /\ listKind' = GetListType(markerText)
    /\ kpc' = "done"
    /\ UNCHANGED <<markerText, tableVars, listVars, headVars, scanVars, rerunVars, pipeVars, concVars, styleVars, levelVars, widthVars, nestVars, sectVars, emptyVars, linkVars, mergeVars, formatVars>>

NextKind == getListType

SpecKind == InitKind /\ [][NextKind]_vars

\* the document holds one table with text in every cell
InitWidth ==
    /\ \E hasGroup \in BOOLEAN : \E nc \in 1..MaxCols : \E cols \in [1..nc -> ColNodes] :
          \E n \in 1..MaxWidthCells : \E cells \in [1..n -> WidthCells] :
              /\ (~hasGroup => nc = 1 /\ cols[1] = ColNode(<<>>, <<>>))
              /\ widthDoc = <<WidthTable(hasGroup, cols, cells)>>
    /\ widthTree = <<>> /\ colspecs = <<>> /\ wpc = "src"
    /\ TableIdle /\ ListIdle /\ HeadIdle /\ ScanIdle /\ RerunIdle /\ PipeIdle /\ ConcIdle /\ StyleIdle /\ LevelIdle /\ KindIdle /\ NestIdle /\ SectIdle /\ EmptyIdle /\ LinkIdle /\ MergeIdle /\ FormatIdle

\* html = cleanEmptyTags(html)
cleanEmptyTags ==
    /\ wpc = "src"
    /\ widthTree' = ProcessElement(widthDoc)
    /\ wpc' = "cleaned"
    /\ UNCHANGED <<widthDoc, colspecs, tableVars, listVars, headVars, scanVars, rerunVars, pipeVars, concVars, styleVars, levelVars, kindVars, nestVars, sectVars, emptyVars, linkVars, mergeVars, formatVars>>

\* processTables, called from doExtraTransformJsdomCantHandle
tableWidths ==
    /\ wpc = "cleaned"
    /\ colspecs' = WidthColSpecs(widthTree[1])
    /\ wpc' = "done"
    /\ UNCHANGED <<widthDoc, widthTree, tableVars, listVars, headVars, scanVars, rerunVars, pipeVars, concVars, styleVars, levelVars, kindVars, nestVars, sectVars, emptyVars, linkVars, mergeVars, formatVars>>

NextWidth == cleanEmptyTags \/ tableWidths

SpecWidth == InitWidth /\ [][NextWidth]_vars

\* the document holds one table whose cells may hold tables
InitNest ==
    /\ \E n \in 1..MaxNestCells : \E contents \in [1..n -> OuterContents] :
          nestIn = Node("body", <<>>, <<NestTable(contents)>>)
    /\ nestDoc = nestIn /\ tablesLeft = <<>> /\ npc = "src"
    /\ TableIdle /\ ListIdle /\ HeadIdle /\ ScanIdle /\ RerunIdle /\ PipeIdle /\ ConcIdle /\ StyleIdle /\ LevelIdle /\ KindIdle /\ WidthIdle /\ SectIdle /\ EmptyIdle /\ LinkIdle /\ MergeIdle /\ FormatIdle

\* const tables = Array.from(document.querySelectorAll('table')).reverse()
queryTables ==
    /\ npc = "src"
    /\ tablesLeft' = Reversed(TablePaths(nestDoc, <<>>))
    /\ npc' = "loop"
    /\ UNCHANGED <<nestIn, nestDoc, tableVars, listVars, headVars, scanVars, rerunVars, pipeVars, concVars, styleVars, levelVars, kindVars, widthVars, sectVars, emptyVars, linkVars, mergeVars, formatVars>>

\* one turn of tables.forEach
convertTable ==
    /\ npc = "loop" /\ tablesLeft # <<>>
    /\ LET t == NodeAt(nestDoc, Head(tablesLeft))
       IN  nestDoc' = IF NestColCount(t) = 0 THEN nestDoc
                      ELSE ReplaceAt(nestDoc, Head(tablesLeft), NestCalsTree(t))
    /\ tablesLeft' = Tail(tablesLeft)
    /\ UNCHANGED <<nestIn, npc, tableVars, listVars, headVars, scanVars, rerunVars, pipeVars, concVars, styleVars, levelVars, kindVars, widthVars, sectVars, emptyVars, linkVars, mergeVars, formatVars>>

\* let finalHtml = document.body.innerHTML; return finalHtml
returnTables ==
    /\ npc = "loop" /\ tablesLeft = <<>>
    /\ npc' = "done"
    /\ UNCHANGED <<nestIn, nestDoc, tablesLeft, tableVars, listVars, headVars, scanVars, rerunVars, pipeVars, concVars, styleVars, levelVars, kindVars, widthVars, sectVars, emptyVars, linkVars, mergeVars, formatVars>>

NextNest == queryTables \/ convertTable \/ returnTables

SpecNest == InitNest /\ [][NextNest]_vars

\* a table of up to MaxSections row sections, each of up to MaxSectionRows rows
InitSect ==
    /\ \E n \in 1..MaxSections : \E tags \in [1..n -> SectionTags] :
          \E lens \in [1..n -> 0..MaxSectionRows] :
              sectTable = SectionsOf(tags, lens)
    /\ groups = NoGroups /\ gpc = "src"
    /\ TableIdle /\ ListIdle /\ HeadIdle /\ ScanIdle /\ RerunIdle /\ PipeIdle /\ ConcIdle /\ StyleIdle /\ LevelIdle /\ KindIdle /\ WidthIdle /\ NestIdle /\ EmptyIdle /\ LinkIdle /\ MergeIdle /\ FormatIdle

processTableSections ==
    /\ gpc = "src"
    /\ groups' = ConvertSections(sectTable)
    /\ gpc' = "done"
    /\ UNCHANGED <<sectTable, tableVars, listVars, headVars, scanVars, rerunVars, pipeVars, concVars, styleVars, levelVars, kindVars, widthVars, nestVars, emptyVars, linkVars, mergeVars, formatVars>>

NextSect == processTableSections

SpecSect == InitSect /\ [][NextSect]_vars

\* the body holds one element, whose children are leaves or elements with
\* leaves as children
InitEmpty ==
    /\ \E tag \in ContainerTags : \E n \in 0..MaxEmptyKids :
          \E kids \in [1..n -> EmptyLeaves \cup FlatElements] :
              emptyIn = <<Node(tag, <<>>, kids)>>
    /\ emptyOut = <<>> /\ epc = "src"
    /\ TableIdle /\ ListIdle /\ HeadIdle /\ ScanIdle /\ RerunIdle /\ PipeIdle /\ ConcIdle /\ StyleIdle /\ LevelIdle /\ KindIdle /\ WidthIdle /\ NestIdle /\ SectIdle /\ LinkIdle /\ MergeIdle /\ FormatIdle

\* processElement(document.body); return document.body.innerHTML
cleanEmptyElements ==
    /\ epc = "src"
    /\ emptyOut' = ProcessElement(emptyIn)
    /\ epc' = "done"
    /\ UNCHANGED <<emptyIn, tableVars, listVars, headVars, scanVars, rerunVars, pipeVars, concVars, styleVars, levelVars, kindVars, widthVars, nestVars, sectVars, linkVars, mergeVars, formatVars>>

NextEmpty == cleanEmptyElements

SpecEmpty == InitEmpty /\ [][NextEmpty]_vars

\* the markup is a sequence of up to MaxLinks elements
InitLink ==
    /\ \E n \in 1..MaxLinks : \E tags \in [1..n -> LinkTags] :
          \E attrs \in [1..n -> LinkAttrs] :
              linkIn = Flatten([i \in 1..n |-> LinkElement(tags[i], attrs[i])])
    /\ linkOut = <<>> /\ xpc = "src"
    /\ TableIdle /\ ListIdle /\ HeadIdle /\ ScanIdle /\ RerunIdle /\ PipeIdle /\ ConcIdle /\ StyleIdle /\ LevelIdle /\ KindIdle /\ WidthIdle /\ NestIdle /\ SectIdle /\ EmptyIdle /\ MergeIdle /\ FormatIdle

convertLinks ==
    /\ xpc = "src"
    /\ linkOut' = ConvertLinks(linkIn)
    /\ xpc' = "done"
    /\ UNCHANGED <<linkIn, tableVars, listVars, headVars, scanVars, rerunVars, pipeVars, concVars, styleVars, levelVars, kindVars, widthVars, nestVars, sectVars, emptyVars, mergeVars, formatVars>>

NextLink == convertLinks

SpecLink == InitLink /\ [][NextLink]_vars

InitMerge ==
    /\ \E tag \in {"p", "b"} : \E n \in 1..MaxInline :
          \E kids \in [1..n -> InnerInline] :
              /\ NoAdjacentText(kids)
              /\ mergeIn = <<Node(tag, <<>>, kids)>>
    /\ mergeOut = <<>> /\ mpc = "src"
    /\ TableIdle /\ ListIdle /\ HeadIdle /\ ScanIdle /\ RerunIdle /\ PipeIdle /\ ConcIdle /\ StyleIdle /\ LevelIdle /\ KindIdle /\ WidthIdle /\ NestIdle /\ SectIdle /\ EmptyIdle /\ LinkIdle /\ FormatIdle

mergeConsecutiveInlineTags ==
    /\ mpc = "src"
    /\ mergeOut' = MergeConsecutiveInlineTags(mergeIn)
    /\ mpc' = "done"
    /\ UNCHANGED <<mergeIn, tableVars, listVars, headVars, scanVars, rerunVars, pipeVars, concVars, styleVars, levelVars, kindVars, widthVars, nestVars, sectVars, emptyVars, linkVars, formatVars>>

NextMerge == mergeConsecutiveInlineTags

SpecMerge == InitMerge /\ [][NextMerge]_vars

InitFormat ==
    /\ \E n \in 1..MaxTokens : \E tags \in [1..n -> FormatTokens] :
          NoTextTwice(tags) /\ fmtTags = tags
    /\ fmtIndex = 1 /\ indent = 0 /\ currentLine = <<>> /\ formatted = <<>>
    /\ fpc = "loop"
    /\ TableIdle /\ ListIdle /\ HeadIdle /\ ScanIdle /\ RerunIdle /\ PipeIdle /\ ConcIdle /\ StyleIdle /\ LevelIdle /\ KindIdle /\ WidthIdle /\ NestIdle /\ SectIdle /\ EmptyIdle /\ LinkIdle /\ MergeIdle

\* the token the loop of formatHtml is at
AtToken == fpc = "loop" /\ fmtIndex <= Len(fmtTags)

AtBlockTag(k) ==
    AtToken /\ fmtTags[fmtIndex].k = k /\ fmtTags[fmtIndex].tag \in BlockTags

AtSimpleBlock ==
    /\ AtBlockTag("open")
    /\ fmtTags[fmtIndex].tag \in SimpleBlockTags
    /\ IsSimpleBlock(fmtTags, fmtIndex, fmtTags[fmtIndex].tag)

\* a block closing tag
closeBlock ==
    /\ AtBlockTag("close")
    /\ indent' = IndentAfterClose(indent)
    /\ formatted' = Append(Flushed(formatted, indent, currentLine),
                           Line(indent', <<fmtTags[fmtIndex]>>))
    /\ currentLine' = <<>>
    /\ fmtIndex' = fmtIndex + 1
    /\ UNCHANGED <<fmtTags, fpc, tableVars, listVars, headVars, scanVars, rerunVars, pipeVars, concVars, styleVars, levelVars, kindVars, widthVars, nestVars, sectVars, emptyVars, linkVars, mergeVars>>

\* a self-closing block tag
selfClosingBlock ==
    /\ AtBlockTag("empty")
    /\ formatted' = Append(Flushed(formatted, indent, currentLine),
                           Line(indent, <<fmtTags[fmtIndex]>>))
    /\ currentLine' = <<>>
    /\ fmtIndex' = fmtIndex + 1
    /\ UNCHANGED <<fmtTags, indent, fpc, tableVars, listVars, headVars, scanVars, rerunVars, pipeVars, concVars, styleVars, levelVars, kindVars, widthVars, nestVars, sectVars, emptyVars, linkVars, mergeVars>>

\* a simple block: the open tag, the content and the close tag on one line
simpleBlock ==
    /\ AtSimpleBlock
    /\ LET consumed == Consume(fmtTags, fmtIndex + 1, fmtTags[fmtIndex].tag, 1,
                               <<fmtTags[fmtIndex]>>)
       IN  /\ formatted' = Append(Flushed(formatted, indent, currentLine),
                                  Line(indent, consumed.toks))
           /\ fmtIndex' = consumed.at + 1
    /\ currentLine' = <<>>
    /\ UNCHANGED <<fmtTags, indent, fpc, tableVars, listVars, headVars, scanVars, rerunVars, pipeVars, concVars, styleVars, levelVars, kindVars, widthVars, nestVars, sectVars, emptyVars, linkVars, mergeVars>>

\* any other block opening tag
openBlock ==
    /\ AtBlockTag("open") /\ ~AtSimpleBlock
    /\ formatted' = Append(Flushed(formatted, indent, currentLine),
                           Line(indent, <<fmtTags[fmtIndex]>>))
    /\ indent' = indent + 1
    /\ currentLine' = <<>>
    /\ fmtIndex' = fmtIndex + 1
    /\ UNCHANGED <<fmtTags, fpc, tableVars, listVars, headVars, scanVars, rerunVars, pipeVars, concVars, styleVars, levelVars, kindVars, widthVars, nestVars, sectVars, emptyVars, linkVars, mergeVars>>

\* an inline tag
inlineTag ==
    /\ AtToken /\ fmtTags[fmtIndex].k # "text"
    /\ fmtTags[fmtIndex].tag \notin BlockTags
    /\ currentLine' = Append(currentLine, fmtTags[fmtIndex])
    /\ fmtIndex' = fmtIndex + 1
    /\ UNCHANGED <<fmtTags, indent, formatted, fpc, tableVars, listVars, headVars, scanVars, rerunVars, pipeVars, concVars, styleVars, levelVars, kindVars, widthVars, nestVars, sectVars, emptyVars, linkVars, mergeVars>>

\* a text
textNode ==
    /\ AtToken /\ fmtTags[fmtIndex].k = "text"
    /\ currentLine' = Append(currentLine, Collapsed(fmtTags[fmtIndex]))
    /\ fmtIndex' = fmtIndex + 1
    /\ UNCHANGED <<fmtTags, indent, formatted, fpc, tableVars, listVars, headVars, scanVars, rerunVars, pipeVars, concVars, styleVars, levelVars, kindVars, widthVars, nestVars, sectVars, emptyVars, linkVars, mergeVars>>

\* flushLine(); return formatted.trim(): the lines start with no white
\* space, so trim() takes the last '\n' only
returnFormatted ==
    /\ fpc = "loop" /\ fmtIndex > Len(fmtTags)
    /\ formatted' = Flushed(formatted, indent, currentLine)
    /\ currentLine' = <<>>
    /\ fpc' = "done"
    /\ UNCHANGED <<fmtTags, fmtIndex, indent, tableVars, listVars, headVars, scanVars, rerunVars, pipeVars, concVars, styleVars, levelVars, kindVars, widthVars, nestVars, sectVars, emptyVars, linkVars, mergeVars>>

NextFormat ==
    \/ closeBlock \/ selfClosingBlock \/ simpleBlock \/ openBlock
    \/ inlineTag \/ textNode \/ returnFormatted

SpecFormat == InitFormat /\ [][NextFormat]_vars

\* ------------------------------------------------------------------------
\* Claims about the Table Transformer (checked under SpecTable)
\* ------------------------------------------------------------------------

\* the column-span a cell counts for: a missing colspan counts as 1
C1_Span(cell) == IF cell.colspan = <<>> THEN 1 ELSE cell.colspan[1]

RECURSIVE C1_RowSpanSum(_)
C1_RowSpanSum(row) ==
    IF row = <<>> THEN 0 ELSE C1_Span(Head(row)) + C1_RowSpanSum(Tail(row))

\* C1: for every converted table the emitted column count (cols of tgroup,
\* and the number of colspec elements) is the maximum over the rows of the
\* sum of the cells' column-spans: no row sums to more, and one row sums to it.
C1_ColumnCountIsMaxRowSum ==
    (tpc = "done" /\ cals.converted) =>
        /\ \A i \in 1..Len(table.rows) : C1_RowSpanSum(table.rows[i]) <= cals.cols
        /\ \E i \in 1..Len(table.rows) : C1_RowSpanSum(table.rows[i]) = cals.cols
        /\ Len(cals.colspecs) = cals.cols
        /\ \A i \in 1..Len(cals.colspecs) : cals.colspecs[i].colnum = i

\* C1 witness: a converted table whose widest row is not the first one, with
\* a cell that has no colspan and a cell that has colspan 2 in that row.
C1_Witness ==
    /\ tpc = "done" /\ cals.converted
    /\ Len(table.rows) >= 2
    /\ C1_RowSpanSum(table.rows[1]) < cals.cols
    /\ \E i \in 2..Len(table.rows) :
          /\ C1_RowSpanSum(table.rows[i]) = cals.cols
          /\ \E j, k \in 1..Len(table.rows[i]) :
                table.rows[i][j].colspan = <<>> /\ table.rows[i][k].colspan = <<2>>

\* the entries of an emitted row group that cover position (r, c), each
\* named by its row and its index in the row
Covering(group, r, c) ==
    {rc \in {<<i, j>> \in (1..Len(group)) \X (1..(MaxCells + MaxCells + 2)) :
                j <= Len(group[i])} :
        LET e == group[rc[1]][rc[2]]
        IN  /\ e.row <= r /\ r < e.row + e.rowspan
            /\ e.col <= c /\ c < e.col + e.colspan}

CoveredOnce(group, colCount) ==
    \A r \in 0..(Len(group) - 1) : \A c \in 0..(colCount - 1) :
        Cardinality(Covering(group, r, c)) = 1

\* C2: in every emitted row group every position (row, column) below the
\* column count is covered by exactly one emitted cell: a real cell, the span
\* of a merged cell, or one padding cell.
C2_EveryPositionCoveredOnce ==
    (tpc = "done" /\ cals.converted) =>
        CoveredOnce(cals.thead, cals.cols) /\ CoveredOnce(cals.tbody, cals.cols)

\* the entries emitted before entry j of row i of a group: those of the
\* rows above and those to its left
Earlier(group, i, j) ==
    {rc \in {<<a, b>> \in (1..Len(group)) \X (1..(MaxCells + MaxCells + 2)) :
                b <= Len(group[a])} :
        rc[1] < i \/ (rc[1] = i /\ rc[2] < j)}

OccupiedBefore(group, i, j, r, c) ==
    \E rc \in Earlier(group, i, j) :
        LET e == group[rc[1]][rc[2]]
        IN  /\ e.row <= r /\ r < e.row + e.rowspan
            /\ e.col <= c /\ c < e.col + e.colspan

\* the names of the declared columns
DeclaredNames(out) == {out.colspecs[i].colname : i \in 1..Len(out.colspecs)}

C3_GroupOk(group, out) ==
    \A i \in 1..Len(group) : \A j \in 1..Len(group[i]) :
        LET e == group[i][j]
        IN  e.pad = FALSE =>
              \* placed at the first column no earlier span occupies
              /\ ~OccupiedBefore(group, i, j, e.row, e.col)
              /\ \A c \in 0..(e.col - 1) : OccupiedBefore(group, i, j, e.row, c)
              \* morerows = rowspan - 1
              /\ (e.rowspan > 1 => e.morerows = <<e.rowspan - 1>>)
              /\ (e.rowspan = 1 => e.morerows = <<>>)
              \* namest = col(k+1), nameend = col(k+c), both declared
              /\ (e.colspan > 1 =>
                    /\ e.namest = <<"col", e.col + 1>>
                    /\ e.nameend = <<"col", e.col + e.colspan>>
                    /\ e.namest \in DeclaredNames(out)
                    /\ e.nameend \in DeclaredNames(out))
              /\ (e.colspan = 1 => e.namest = <<>> /\ e.nameend = <<>>)

\* the 2x2 table whose first cell has column-span 2
C3_Plain == [rowspan |-> <<>>, colspan |-> <<>>]
C3_Wide == [rowspan |-> <<>>, colspan |-> <<2>>]
C3_TwoByTwo == <<<<C3_Wide>>, <<C3_Plain, C3_Plain>>>>

\* C3: every cell is placed at the first column of its row that no earlier
\* span occupies; row-span r > 1 gives morerows = r - 1; column-span c > 1 at
\* column k gives namest = col(k+1) and nameend = col(k+c), both names of
\* declared columns; the 2x2 table with a first cell of column-span 2 gives
\* 2 columns, a first row of one cell col1..col2 and a second row of two
\* cells without span attributes.
C3_PlacementAndSpanAttributes ==
    (tpc = "done" /\ cals.converted) =>
        /\ C3_GroupOk(cals.thead, cals)
        /\ C3_GroupOk(cals.tbody, cals)
        /\ (table.rows = C3_TwoByTwo /\ table.nhead = 0) =>
              /\ cals.cols = 2
              /\ Len(cals.tbody) = 2
              /\ Len(cals.tbody[1]) = 1
              /\ cals.tbody[1][1].namest = <<"col", 1>>
              /\ cals.tbody[1][1].nameend = <<"col", 2>>
              /\ Len(cals.tbody[2]) = 2
              /\ \A j \in 1..2 :
                    /\ cals.tbody[2][j].pad = FALSE
                    /\ cals.tbody[2][j].morerows = <<>>
                    /\ cals.tbody[2][j].namest = <<>>
                    /\ cals.tbody[2][j].nameend = <<>>


\* ------------------------------------------------------------------------
\* Claims about the List Reconstructor's tree-builder (checked under SpecList)
\* ------------------------------------------------------------------------

\* the <li> made from buffer[i]
LiOf(dom, i) == CHOOSE e \in 1..Len(dom) : dom[e].tag = "li" /\ dom[e].item = i

HasLi(dom, i) == \E e \in 1..Len(dom) : dom[e].tag = "li" /\ dom[e].item = i

\* the number of list containers around an element
RECURSIVE NestingDepth(_, _)
NestingDepth(dom, e) ==
    IF dom[e].parent = 0 THEN 0
    ELSE (IF dom[dom[e].parent].tag \in ListTypes THEN 1 ELSE 0)
         + NestingDepth(dom, dom[e].parent)

\* the outermost element around an element
RECURSIVE TopOf(_, _)
TopOf(dom, e) == IF dom[e].parent = 0 THEN e ELSE TopOf(dom, dom[e].parent)

Levels(buf) == [i \in 1..Len(buf) |-> buf[i].level]

\* the first level is 1 and no level exceeds its predecessor by more than 1
StepwiseLevels(buf) ==
    /\ buf # <<>> /\ buf[1].level = 1
    /\ \A i \in 2..Len(buf) : buf[i].level <= buf[i - 1].level + 1

\* every item sits in the returned tree at a nesting depth equal to its level
DepthIsLevel(buf, out) ==
    \A i \in 1..Len(buf) :
        /\ HasLi(out.dom, i)
        /\ TopOf(out.dom, LiOf(out.dom, i)) = out.rootList
        /\ NestingDepth(out.dom, LiOf(out.dom, i)) = buf[i].level

\* one top-level list with two items (the first and the fourth paragraph),
\* the first item holding one child list with two items (the second and third)
OneChildListOfTwo(out) ==
    LET dom == out.dom
    IN  /\ out.rootList # 0
        /\ dom[out.rootList].kids = <<LiOf(dom, 1), LiOf(dom, 4)>>
        /\ Len(dom[LiOf(dom, 1)].kids) = 1
        /\ dom[dom[LiOf(dom, 1)].kids[1]].tag \in ListTypes
        /\ dom[dom[LiOf(dom, 1)].kids[1]].kids = <<LiOf(dom, 2), LiOf(dom, 3)>>
        /\ dom[LiOf(dom, 2)].kids = <<>>
        /\ dom[LiOf(dom, 3)].kids = <<>>
        /\ dom[LiOf(dom, 4)].kids = <<>>

\* C4 as stated: levels [1,2,2,1] give one top-level list with two items, the
\* first holding one child list with two items; and stepwise levels starting
\* at 1 put every item at a nesting depth equal to its level.
C4_LevelsRebuildTree_Original ==
    lpc = "done" =>
        /\ (Levels(buffer) = <<1, 2, 2, 1>> => OneChildListOfTwo(tree))
        /\ (StepwiseLevels(buffer) => DepthIsLevel(buffer, tree))

\* C4 amended: levels [1,2,2,1] give one top-level list with two items, the
\* first holding one child list with two items when the two level-2
\* paragraphs have the same list kind; for every buffer whose first level
\* is 1 and whose levels never exceed their predecessor by more than 1,
\* every item ends at a nesting depth equal to its level.
C4_LevelsRebuildTree ==
    lpc = "done" =>
        /\ (Levels(buffer) = <<1, 2, 2, 1>> /\ buffer[2].listType = buffer[3].listType
              => OneChildListOfTwo(tree))
        /\ (StepwiseLevels(buffer) => DepthIsLevel(buffer, tree))

\* C4 witness: the buffer [1,2,2,1] has been built into its tree, the two
\* level-2 paragraphs being of one kind that differs from the level-1 kind.
C4_Witness ==
    /\ lpc = "done"
    /\ Levels(buffer) = <<1, 2, 2, 1>>
    /\ buffer[2].listType = buffer[3].listType
    /\ buffer[1].listType # buffer[2].listType
    /\ OneChildListOfTwo(tree)
    /\ DepthIsLevel(buffer, tree)

\* C5: a level-1 ordered item followed by a level-1 bullet item gives two
\* list containers, an ordered one then an unordered one; two consecutive
\* items of the same level and different list kind never end in the same
\* list container.
C5_KindSwitchStartsNewList ==
    lpc = "done" =>
        /\ \A i \in 1..(Len(buffer) - 1) :
              (buffer[i].level = buffer[i + 1].level
                 /\ buffer[i].listType # buffer[i + 1].listType)
              => tree.dom[LiOf(tree.dom, i)].parent
                    # tree.dom[LiOf(tree.dom, i + 1)].parent
        /\ (buffer = <<[level |-> 1, listType |-> "ol"], [level |-> 1, listType |-> "ul"]>>
              => /\ tree.dom[tree.dom[LiOf(tree.dom, 1)].parent].tag = "ol"
                 /\ tree.dom[tree.dom[LiOf(tree.dom, 2)].parent].tag = "ul")

\* the list containers and the items of the returned tree
C17_Lists ==
    {e \in 1..Len(tree.dom) :
        tree.dom[e].tag \in ListTypes /\ TopOf(tree.dom, e) = tree.rootList}

C17_Items(list) == {e \in 1..Len(tree.dom) : tree.dom[e].parent = list /\ tree.dom[e].tag = "li"}

C17_Level(li) == buffer[tree.dom[li].item].level

\* C17: in the returned tree, for any sequence of levels, all items of one
\* list container have the same level, and the items of a child list have a
\* level one greater than the items of the list that holds the parent item.
C17_ContainerLevels ==
    lpc = "done" =>
        /\ \A list \in C17_Lists : \A a, b \in C17_Items(list) :
              C17_Level(a) = C17_Level(b)
        /\ \A list \in C17_Lists :
              LET holder == tree.dom[list].parent
              IN  (holder # 0 /\ tree.dom[holder].tag = "li") =>
                      \A a \in C17_Items(list) : C17_Level(a) = C17_Level(holder) + 1


\* the buffer indexes of the items at and below element e, in a pre-order
\* walk of the tree
RECURSIVE C28_Walk(_, _)
C28_Walk(dom, e) ==
    (IF dom[e].tag = "li" THEN <<dom[e].item>> ELSE <<>>)
    \o Flatten([k \in 1..Len(dom[e].kids) |-> C28_Walk(dom, dom[e].kids[k])])

\* C28: the tree bufferToList returns holds exactly one list item for each
\* buffered paragraph, all of them below the returned root list, and a
\* pre-order walk yields the items in buffer order
C28_ItemsKeptInOrder ==
    lpc = "done" =>
        /\ tree.rootList # 0
        /\ C28_Walk(tree.dom, tree.rootList) = [i \in 1..Len(buffer) |-> i]

\* a buffer that goes down a level, switches the list kind and comes back
C28_Witness ==
    /\ lpc = "done" /\ Len(buffer) = 3
    /\ buffer[1].level = 1 /\ buffer[2].level = 2 /\ buffer[3].level = 1
    /\ buffer[1].listType # buffer[2].listType
    /\ Len(tree.dom[tree.rootList].kids) = 2

\* ------------------------------------------------------------------------
\* Claims about heading restructuring (checked under SpecHead)
\* ------------------------------------------------------------------------

AllHeadingTags == {OpenH[n] : n \in 1..Len(OpenH)} \cup {CloseH[n] : n \in 1..Len(CloseH)}

AllOpenH == {OpenH[n] : n \in 1..Len(OpenH)}

Count(s, S) == Cardinality({i \in 1..Len(s) : s[i] \in S})

\* the tokens between the first token of opens and the first closes after it
FirstContent(s, opens, closes) ==
    LET i == IndexFrom(s, 1, opens)
        j == IndexFrom(s, i + 1, closes)
    IN  SubSeq(s, i + 1, j - 1)

C6_Example == <<"<h1>", "A", "</h1>", "<p>", "x", "</p>", "<h2>", "B", "</h2>", "<p>", "x", "</p>">>

C6_ExampleOut ==
    <<"<section>", "<dita-title>", "A", "</dita-title>", "<p>", "x", "</p>",
      "<b>", "B", "</b>", "<p>", "x", "</p>", "</section>">>

\* C6: after heading restructuring no h1..h6 tag remains; with a top-level
\* heading in the input there is exactly one title, holding the content of
\* the first top-level heading, and exactly one section wrapping everything,
\* and every other heading has become a bold element; without a top-level
\* heading there is no title and no section.
C6_OneTitleOneSection ==
    hpc = "done" =>
        /\ Count(headOut, AllHeadingTags) = 0
        /\ Count(headIn, OpenH1) > 0 =>
              /\ Count(headOut, {"<dita-title>"}) = 1
              /\ Count(headOut, {"</dita-title>"}) = 1
              /\ FirstContent(headOut, {"<dita-title>"}, {"</dita-title>"})
                    = FirstContent(headIn, OpenH1, CloseH1)
              /\ Count(headOut, {"<section>"}) = 1
              /\ Count(headOut, {"</section>"}) = 1
              /\ headOut[1] = "<section>"
              /\ headOut[Len(headOut)] = "</section>"
              /\ Count(headOut, {"<b>"})
                    = Count(headIn, {"<b>"}) + Count(headIn, AllOpenH) - 1
        /\ Count(headIn, OpenH1) = 0 =>
              /\ Count(headOut, {"<dita-title>", "</dita-title>",
                                 "<section>", "</section>"}) = 0
              /\ Count(headOut, {"<b>"})
                    = Count(headIn, {"<b>"}) + Count(headIn, AllOpenH)
        /\ headIn = C6_Example => headOut = C6_ExampleOut

\* ------------------------------------------------------------------------
\* Claims about the List Reconstructor's node scan (checked under SpecScan)
\* ------------------------------------------------------------------------

\* no list-marker paragraph anywhere in these nodes
RECURSIVE NoListPara(_)
NoListPara(nodes) ==
    nodes = <<>> \/ (/\ ~(Head(nodes).tag = "p" /\ Head(nodes).mso)
                     /\ NoListPara(Head(nodes).kids)
                     /\ NoListPara(Tail(nodes)))

\* the nodes without their white-space text nodes
RECURSIVE ModuloWhitespace(_)
ModuloWhitespace(nodes) ==
    IF nodes = <<>> THEN <<>>
    ELSE IF Head(nodes).tag = "#text" /\ Head(nodes).blank
    THEN ModuloWhitespace(Tail(nodes))
    ELSE <<[Head(nodes) EXCEPT !.kids = ModuloWhitespace(@)]>>
         \o ModuloWhitespace(Tail(nodes))

\* C7: for every input without a list-marker paragraph the List
\* Reconstructor is a no-op: the nodes of its output, and their nesting,
\* are those of its input, modulo white space; also when the content is
\* wrapped in document/section container elements.
C7_NoListParaIsNoOp ==
    (spc = "done" /\ NoListPara(body)) =>
        ModuloWhitespace(newBody) = ModuloWhitespace(body)

\* the child nodes the scan loop goes through: those of <body> after the
\* document and section containers were unwrapped
Scanned == UnwrapDocument(body).nodes

C16_NotBlank(nodes) == SelectSeq(nodes, LAMBDA n : ~(n.tag = "#text" /\ n.blank))

C16_ListMarker(n) == n.tag = "p" /\ n.mso

\* the nodes with every maximal run of list-marker paragraphs replaced by
\* one list built from the run; run holds the paragraphs of the open run
RECURSIVE C16_RunsReplaced(_, _)
C16_RunsReplaced(nodes, run) ==
    LET list == IF run = <<>> THEN <<>> ELSE <<ListOf(run)>>
    IN  IF nodes = <<>> THEN list
        ELSE IF C16_ListMarker(Head(nodes))
        THEN C16_RunsReplaced(Tail(nodes), Append(run, Head(nodes)))
        ELSE list \o <<Head(nodes)>> \o C16_RunsReplaced(Tail(nodes), <<>>)

\* C16: white space put aside, the scan returns the scanned nodes in order
\* with each maximal run of consecutive list-marker paragraphs (white space
\* between them does not end a run) replaced, at its position, by one list
\* built from one buffer that holds the paragraphs of the run; a run at
\* the end is replaced too, and the other nodes keep their order.
C16_RunsBecomeLists ==
    spc = "done" =>
        C16_NotBlank(newBody) = C16_RunsReplaced(C16_NotBlank(Scanned), <<>>)

\* two list-marker paragraphs with white space between them, white space, a
\* paragraph, and a list-marker paragraph at the end: two lists
C16_Witness ==
    /\ spc = "done" /\ Len(body) >= 4 /\ Len(newBody) = 3
    /\ C16_ListMarker(body[1]) /\ body[2].tag = "#text" /\ body[2].blank
    /\ C16_ListMarker(body[3]) /\ C16_ListMarker(body[Len(body)])
    /\ newBody[1].tag = "list" /\ Len(newBody[1].kids) = 2
    /\ newBody[2].tag # "list"
    /\ newBody[3].tag = "list" /\ Len(newBody[3].kids) = 1


\* a list-marker paragraph at or below the node; the nodes of a list are
\* the paragraphs its items were made from
RECURSIVE C27_HoldsListPara(_)
C27_HoldsListPara(n) ==
    \/ IsListPara(n)
    \/ n.tag # "list" /\ \E i \in 1..Len(n.kids) : C27_HoldsListPara(n.kids[i])

\* C27: after the List Reconstructor has run no paragraph with a list-marker
\* style declaration is left anywhere in the document, at the top level or
\* inside another element (a table cell, a container)
C27_NoListParaLeft ==
    spc = "done" => \A i \in 1..Len(newBody) : ~C27_HoldsListPara(newBody[i])

\* ------------------------------------------------------------------------
\* Claims about a second run of the pipeline (checked under SpecRerun)
\* ------------------------------------------------------------------------

\* C8: running cleanHtml and formatHtml on formatHtml(cleanHtml(x)) gives
\* markup with the same elements, nesting, attributes and text as
\* formatHtml(cleanHtml(x)), also when that markup holds a CALS table.
C8_SecondRunKeepsStructure == rpc = "twice" => out2 = out1

\* ------------------------------------------------------------------------
\* Claims about failing stages (checked under SpecPipe)
\* ------------------------------------------------------------------------

\* the text the last call of cleanHtml completed before the call of log
\* entry i produced: the argument of cleanHtml when there is none
TextBefore(i) ==
    LET prior == {j \in 1..(i - 1) : log[j].step.call < log[i].step.call}
    IN  IF prior = {} THEN content
        ELSE log[CHOOSE j \in prior : \A k \in prior : k <= j].out

\* the failures of a finished run inside cleanHtml, and inside formatHtml
CleanFailures == {i \in FailedAt(log) : log[i].step.name # "formatHtml"}

FormatFailures == {i \in FailedAt(log) : log[i].step.name = "formatHtml"}

\* formatHtml returns its input unchanged when it fails
FormatFailureReturnsInput == \A i \in FormatFailures : result = log[i].in

\* C9 as stated: after a failure inside any stage k of cleanHtml, cleanHtml
\* returns the string produced by the last stage that completed before
\* stage k (the original input when the first stage fails); formatHtml
\* returns its input unchanged when it fails.
C9_FailureReturnsTextBefore_Original ==
    phase = "done" =>
        /\ \A i \in CleanFailures : cleaned = TextBefore(i)
        /\ FormatFailureReturnsInput

\* C9, amended: after a failure that is not caught inside the stage and
\* reaches the catch of cleanHtml, cleanHtml returns the string produced by
\* the last stage that completed before that stage (the original input
\* when the first stage fails); formatHtml returns its input unchanged
\* when it fails.
C9_FailureReturnsTextBefore ==
    phase = "done" =>
        /\ \A i \in CleanFailures :
              log[i].outcome = "raised" => cleaned = TextBefore(i)
        /\ FormatFailureReturnsInput

\* a stage after the first failed without a handler, and the stages before
\* it had changed the markup
C9_Witness ==
    /\ phase = "done"
    /\ \E i \in CleanFailures :
          log[i].outcome = "raised" /\ cleaned = TextBefore(i) /\ cleaned # content

\* the steps of a run in which no exception reaches the catch of cleanHtml
AllSteps == Steps \o <<FormatStep>>

\* every step after log entry i ran, the next one on the output of entry i
LaterStepsRan(i) ==
    /\ Len(log) = Len(AllSteps)
    /\ \A j \in (i + 1)..Len(log) : log[j].step = AllSteps[j]
    /\ i < Len(log) => log[i + 1].in = log[i].out

SanitizerSteps == {"basicTextCleanup", "removeUnwantedTags", "cleanSelectiveStyles"}

ListSteps == {"addListLevelClasses", "convertMsoListToNestedLists"}

TableSteps == {"processTables"}

\* container-to-paragraph conversion and empty-element removal
EarlyNormalizerSteps == {"convertDivToP", "cleanEmptyTags"}

\* link conversion, heading/section restructuring and inline merging
LateNormalizerSteps == {"linkConversion", "cleanHeadingTags", "mergeConsecutiveInlineTags"}

FormatterSteps == {"formatHtml"}

\* in the log every step of first ran before every step of second
RanBefore(first, second) ==
    LET ranFirst  == {i \in 1..Len(log) : log[i].step.name \in first}
        ranSecond == {j \in 1..Len(log) : log[j].step.name \in second}
    IN  \A i \in ranFirst : \A j \in ranSecond : i < j

\* the Formatter is the last step of a finished run
FormatterLast ==
    phase = "done" => log[Len(log)].step.name \in FormatterSteps

\* C11 as stated: the stages run in the order Sanitizer, List
\* Reconstructor, Table Transformer, Structural Normalizer, Formatter; the
\* Table Transformer runs after list reconstruction and before every
\* Structural Normalizer step, the Formatter last.
C11_StageOrder_Original ==
    /\ RanBefore(SanitizerSteps, ListSteps)
    /\ RanBefore(ListSteps, TableSteps)
    /\ RanBefore(TableSteps, EarlyNormalizerSteps \cup LateNormalizerSteps)
    /\ RanBefore(EarlyNormalizerSteps \cup LateNormalizerSteps, FormatterSteps)
    /\ FormatterLast

\* C11, amended: the Table Transformer runs after list reconstruction and
\* after container-to-paragraph conversion and empty-element removal, and
\* before link conversion, heading/section restructuring and inline
\* merging; the Formatter runs last.
C11_StageOrder ==
    /\ RanBefore(SanitizerSteps, ListSteps)
    /\ RanBefore(ListSteps, EarlyNormalizerSteps)
    /\ RanBefore(EarlyNormalizerSteps, TableSteps)
    /\ RanBefore(TableSteps, LateNormalizerSteps)
    /\ RanBefore(LateNormalizerSteps, FormatterSteps)
    /\ FormatterLast

\* a finished run in which every step ran
C11_Witness ==
    /\ phase = "done"
    /\ \A k \in 1..Len(AllSteps) : \E i \in 1..Len(log) : log[i].step = AllSteps[k]

\* ------------------------------------------------------------------------
\* C12: transformContent's html under concurrent invocations
\* ------------------------------------------------------------------------

Invocations == 1..MaxInvocations

\* C12: every invocation of transformContent that returns, returns as html
\* the formatted form of the cleaned form of its own content, whatever the
\* other invocations did and whether its debug file was written or not.
C12_HtmlIsFormatOfCleanOfOwnContent ==
    \A i \in DOMAIN runs :
        runs[i].pc = "done" =>
            runs[i].html = FormatHtml(CleanHtml(runs[i].content))

\* two invocations with different content that both returned, one after its
\* debug write failed, the other having written the file the directory holds
C12_Witness ==
    \E i, j \in DOMAIN runs :
        /\ runs[i].pc = "done" /\ runs[j].pc = "done"
        /\ runs[i].content # runs[j].content
        /\ runs[i].debugFile = <<>>
        /\ runs[j].debugFile # <<>>
        /\ HasFile(debugDir, runs[j].debugFile[1])

\* ------------------------------------------------------------------------
\* C13: the allow-list of cleanSelectiveStyles
\* ------------------------------------------------------------------------

\* the property a piece declares, and its value, blanks and case put aside
C13_Property(piece) == IF Len(Trim(piece)) >= 2 THEN Lower(Trim(piece)[1]) ELSE ""

C13_Value(piece) == Lower(Trim(piece)[Len(Trim(piece))])

C13_HoldsListMarker(styles) ==
    \E k \in 1..Len(styles) : C13_Property(styles[k]) = "mso-list"

\* the allow-list of the claim
C13_OnAllowList(piece, styles) ==
    \/ C13_Property(piece) = "mso-list"
    \/ C13_Property(piece) = "margin-left" /\ C13_HoldsListMarker(styles)
    \/ C13_Property(piece) = "font-weight" /\ C13_Value(piece) \in {"bold", "bolder"}
    \/ C13_Property(piece) = "font-style" /\ C13_Value(piece) = "italic"
    \/ C13_Property(piece) = "text-decoration" /\ C13_Value(piece) = "underline"
    \/ C13_Property(piece) = "width"

C13_Kept(styles) ==
    LET allowed == SelectSeq(styles, LAMBDA piece : C13_OnAllowList(piece, styles))
    IN  [k \in 1..Len(allowed) |-> Trim(allowed[k])]

ListParas == {k \in 1..Len(startTags) : startTags[k].mso}

\* the level bufferToList reads for paragraph k after the pass
InferredLevel(k) == ClassLevel(classed[k])

\* 1e-4, in units
Tolerance == Unit \div 10000

Distance(a, b) == IF a >= b THEN a - b ELSE b - a

\* two list-marker paragraphs whose margins are more than the tolerance apart
C14_SeveralMagnitudes ==
    \E i, j \in ListParas :
        Distance(MarginPt(startTags[i]), MarginPt(startTags[j])) >= Tolerance

\* C14: when the list-marker paragraphs carry more than one distinct margin
\* magnitude, margins within 1e-4 of each other get the same level, a
\* smaller margin gets a smaller level, and the levels used are exactly
\* 1..N, so that the smallest margin gets level 1.
C14_LevelsAreMarginRanks ==
    (vpc = "classed" /\ C14_SeveralMagnitudes) =>
        /\ \A i, j \in ListParas :
              Distance(MarginPt(startTags[i]), MarginPt(startTags[j])) < Tolerance
                  => InferredLevel(i) = InferredLevel(j)
        /\ \A i, j \in ListParas :
              MarginPt(startTags[i]) + Tolerance <= MarginPt(startTags[j])
                  => InferredLevel(i) < InferredLevel(j)
        /\ LET used == {InferredLevel(k) : k \in ListParas}
           IN  used = 1..Cardinality(used)

\* the level number of the list-marker declaration of paragraph k, 1 when the
\* declaration holds none
C15_ExplicitOrDefault(k) ==
    IF startTags[k].level = <<>> THEN 1 ELSE startTags[k].level[1]

C18_Delimiters == {".", ")"}

\* a run of characters of the class at the start, then a delimiter
C18_RunThenDelimiter(text, class) ==
    \E n \in 1..(Len(text) - 1) :
        /\ \A k \in 1..n : text[k] \in class
        /\ text[n + 1] \in C18_Delimiters

C18_OrderedMarker(text) ==
    \/ Len(text) >= 2 /\ text[1] \in Letters /\ text[2] \in C18_Delimiters
    \/ C18_RunThenDelimiter(text, Digits)
    \/ C18_RunThenDelimiter(text, Romans)
    \/ C18_RunThenDelimiter(text, CjkNumerals)

\* C18: the list kind is ordered when the marker text starts with a letter,
\* a digit run, a roman numeral or a CJK numeral followed by a delimiter, and
\* unordered when it starts with a bullet glyph, when there is no marker,
\* and when the marker matches none of these patterns.
C18_KindOfMarker ==
    kpc = "done" =>
        IF markerText # NoMarker /\ C18_OrderedMarker(markerText)
        THEN listKind = "ol" ELSE listKind = "ul"

\* ------------------------------------------------------------------------
\* C19: column widths through the pipeline
\* ------------------------------------------------------------------------

\* the table of the pipeline input
C19_Table == widthDoc[1]

C19_Cols == Descendants(C19_Table, "col")

C19_FirstRow == Descendants(Descendants(C19_Table, "tr")[1], "td")

\* the columns before element i of a row of cells or of a colgroup
C19_Before(elements, i, field) == SpanSum(SubSeq(elements, 1, i - 1), field)

\* the elements that occupy column k
C19_Occupying(elements, k, field) ==
    {i \in 1..Len(elements) :
        /\ C19_Before(elements, i, field) < k
        /\ k <= C19_Before(elements, i, field) + SpanOf(elements[i].attrs[1][field])}

\* the width the claim resolves for column k: (a) the column-group
\* descriptor's, (b) the first-row cell's when its column-span is 1, (c) none
C19_Resolved(k) ==
    LET byCol  == {i \in C19_Occupying(C19_Cols, k, "span") :
                      C19_Cols[i].attrs[1].width # <<>>}
        byCell == {i \in C19_Occupying(C19_FirstRow, k, "colspan") :
                      /\ SpanOf(C19_FirstRow[i].attrs[1].colspan) = 1
                      /\ C19_FirstRow[i].attrs[1].width # <<>>}
    IN  IF byCol # {} THEN C19_Cols[CHOOSE i \in byCol : TRUE].attrs[1].width
        ELSE IF byCell # {} THEN C19_FirstRow[CHOOSE i \in byCell : TRUE].attrs[1].width
        ELSE <<>>

\* C19: for every column k of a table that went through the pipeline, the
\* emitted colspec carries the width declared for k on a column-group
\* descriptor of the input table; else the width of the first-row cell
\* occupying k when its column-span is 1; else the proportional default 1*.
C19_WidthPriority ==
    wpc = "done" =>
        \A k \in 1..Len(colspecs) :
            colspecs[k].colwidth = NormalizeWidth(C19_Resolved(k))

\* ------------------------------------------------------------------------
\* C20: nested tables
\* ------------------------------------------------------------------------

\* path a is a proper prefix of path b: the table at b lies in the table at a
C20_Inside(a, b) == Len(a) < Len(b) /\ SubSeq(b, 1, Len(a)) = a

\* no table waits for its turn behind a table that holds it
C20_InnerFirst ==
    \A i, j \in 1..Len(tablesLeft) :
        C20_Inside(tablesLeft[i], tablesLeft[j]) => j < i

\* every table of the input has become a dita-table of the output
C20_EveryTableConverted ==
    /\ Descendants(nestDoc, "table") = <<>>
    /\ Len(Descendants(nestDoc, "dita-table")) = Len(Descendants(nestIn, "table"))

\* the entries emitted for the outer table hold as many converted tables as
\* its cells held tables with a cell
C20_OuterHoldsInner ==
    LET outer == Descendants(nestDoc, "dita-table")
        held  == Descendants(nestIn.kids[1], "table")
    IN  outer # <<>> /\
        Len(Descendants(outer[1], "dita-table"))
            = Len(SelectSeq(held, LAMBDA t : NestColCount(t) # 0))

\* C20: processTables converts every table of the document, an inner table
\* is converted before the table that holds it, and the emitted cells of
\* the outer table contain the inner table in converted form.
C20_NestedTablesConverted ==
    /\ C20_InnerFirst
    /\ npc = "done" => (C20_EveryTableConverted /\ C20_OuterHoldsInner)

\* ------------------------------------------------------------------------
\* Claims about the row groups (checked under SpecSect)
\* ------------------------------------------------------------------------

\* the ids of the rows of the sections with a tag in tags, in document order
C21_RowsIn(tags) ==
    LET rows == AllRows([k \in 1..Len(sectTable) |->
                           IF sectTable[k].tag \in tags THEN sectTable[k]
                           ELSE [sectTable[k] EXCEPT !.rows = <<>>]])
    IN  [i \in 1..Len(rows) |-> rows[i].id]

C21_Emitted(group) == [i \in 1..Len(group) |-> group[i].id]

\* C21: every row of a source table is emitted exactly once and in source
\* order, in the header group when it lies in a header section and in the
\* body group otherwise, also with several body sections or a footer section
C21_RowsEmittedOnceInOrder ==
    (gpc = "done" /\ groups.converted) =>
        /\ C21_Emitted(groups.thead) = C21_RowsIn({"thead"})
        /\ C21_Emitted(groups.tbody) = C21_RowsIn({"tbody", "tfoot"})

\* ------------------------------------------------------------------------
\* Claims about empty-element removal (checked under SpecEmpty)
\* ------------------------------------------------------------------------

\* an image or a line break at or below the node
C22_HoldsImageOrBreak(n) ==
    \/ n.tag \in {"img", "br"}
    \/ Descendants(n, "img") # <<>> \/ Descendants(n, "br") # <<>>

\* the elements the claim has removed: no text that is not white space, no
\* image or line break, a tag outside the preserve-list
C22_Removable(n) ==
    n.tag # "#text" /\ ~HasText(n) /\ ~C22_HoldsImageOrBreak(n)
        /\ n.tag \notin PreserveTags

\* the child nodes left when exactly the removable elements are removed
RECURSIVE C22_Kept(_)
C22_Kept(kids) ==
    Flatten([i \in 1..Len(kids) |->
                IF C22_Removable(kids[i]) THEN <<>>
                ELSE <<[kids[i] EXCEPT !.kids = C22_Kept(@)]>>])

\* C22: cleanEmptyTags removes an element if and only if it has no text
\* that is not white space, holds no image or line break and its tag is not
\* on the preserve-list; an element with a line break below it is kept
\* together with the line break, a preserve-list element is kept when empty
C22_RemovesExactlyTheEmpty ==
    epc = "done" => emptyOut = C22_Kept(emptyIn)

\* ------------------------------------------------------------------------
\* Claims about the link conversion (checked under SpecLink)
\* ------------------------------------------------------------------------

\* the start tags of the hyperlink elements of the input
C23_Anchors == {i \in 1..Len(linkIn) : linkIn[i].k = "open" /\ linkIn[i].tag = "a"}

\* the value of the attribute of a start tag: <<>> when it has none
C23_Value(tok, name) ==
    LET named == SelectSeq(tok.attrs, LAMBDA a : a.name = name)
    IN  IF named = <<>> THEN <<>> ELSE <<named[Len(named)].value>>

\* the start tag is an external cross-reference with the target of the
\* anchor it was made from (when the anchor has one)
C23_IsXrefOf(tok, anchor) ==
    /\ tok.k = "open" /\ tok.tag = "xref"
    /\ C23_Value(tok, "scope") = <<"external">>
    /\ C23_Value(anchor, "href") # <<>>
          => C23_Value(tok, "href") = C23_Value(anchor, "href")

\* the number of tokens of kind k and the tag among the first n of the output
C23_Count(k, tag, n) ==
    Cardinality({i \in 1..n : linkOut[i].k = k /\ linkOut[i].tag = tag})

\* C23: after the link conversion every hyperlink element of the input is
\* an external cross-reference with the original target, no anchor start or
\* end tag is left, and every cross-reference end tag matches a start tag;
\* also for anchors without a target
C23_AnchorsBecomeXrefs ==
    xpc = "done" =>
        /\ \A i \in C23_Anchors : C23_IsXrefOf(linkOut[i], linkIn[i])
        /\ \A i \in 1..Len(linkOut) : linkOut[i].tag # "a"
        /\ \A n \in 1..Len(linkOut) :
              C23_Count("close", "xref", n) <= C23_Count("open", "xref", n)

\* ------------------------------------------------------------------------
\* Claims about inline merging (checked under SpecMerge)
\* ------------------------------------------------------------------------

\* the node and all nodes below it
RECURSIVE C24_Nodes(_)
C24_Nodes(n) == {n} \cup UNION {C24_Nodes(n.kids[i]) : i \in 1..Len(n.kids)}

\* no child element of the same b/i/u kind
C24_NoNestedSame(n) ==
    n.tag \in MergeTags => \A i \in 1..Len(n.kids) : n.kids[i].tag # n.tag

\* no two children of the same b/i/u kind that are adjacent or have only
\* white-space text between them
C24_NoSiblingsToMerge(n) ==
    \A i, j \in 1..Len(n.kids) :
        (i < j /\ n.kids[i].tag \in MergeTags /\ n.kids[j].tag = n.kids[i].tag)
            => \E k \in (i + 1)..(j - 1) : n.kids[k] # Blank

\* C24: after mergeConsecutiveInlineTags no b/i/u element of the tree has a
\* child element of its own kind, and no two sibling elements of the same
\* b/i/u kind are adjacent or separated by white-space text only
C24_InlineFullyMerged ==
    mpc = "done" =>
        \A n \in C24_Nodes(Node("body", <<>>, mergeOut)) :
            C24_NoNestedSame(n) /\ C24_NoSiblingsToMerge(n)

\* ------------------------------------------------------------------------
\* Claims about the Formatter (checked under SpecFormat)
\* ------------------------------------------------------------------------

\* the step takes a block opening tag down the normal block path
C25_OpensNormalBlock == AtBlockTag("open") /\ ~AtSimpleBlock

\* the step emits a block closing tag: on a line of its own, or as the end
\* of a single-line block
C25_EmitsBlockClose == AtBlockTag("close") \/ AtSimpleBlock

\* the block tags of the tokens are properly nested
RECURSIVE C25_Nested(_, _)
C25_Nested(tags, open) ==
    IF tags = <<>> THEN open = <<>>
    ELSE IF Head(tags).k \in {"text", "empty"} \/ Head(tags).tag \notin BlockTags
    THEN C25_Nested(Tail(tags), open)
    ELSE IF Head(tags).k = "open"
    THEN C25_Nested(Tail(tags), <<Head(tags).tag>> \o open)
    ELSE /\ open # <<>> /\ Head(open) = Head(tags).tag
         /\ C25_Nested(Tail(tags), Tail(open))

C25_Balanced == C25_Nested(fmtTags, <<>>)

\* the tokens of the emitted lines, each with the indentation of its line
C25_Emitted ==
    Flatten([l \in 1..Len(formatted) |->
                [t \in 1..Len(formatted[l].toks) |->
                    [tok |-> formatted[l].toks[t], indent |-> formatted[l].indent]]])

\* every block closing tag stands at the indentation of the opening tag it
\* closes; open holds the indentations of the blocks that are open
RECURSIVE C25_Aligned(_, _)
C25_Aligned(emitted, open) ==
    IF emitted = <<>> THEN TRUE
    ELSE IF Head(emitted).tok.k \in {"text", "empty"}
            \/ Head(emitted).tok.tag \notin BlockTags
    THEN C25_Aligned(Tail(emitted), open)
    ELSE IF Head(emitted).tok.k = "open"
    THEN C25_Aligned(Tail(emitted), <<Head(emitted).indent>> \o open)
    ELSE /\ open # <<>> /\ Head(open) = Head(emitted).indent
         /\ C25_Aligned(Tail(emitted), Tail(open))

C25_BalancedInputIsAligned ==
    (fpc = "done" /\ C25_Balanced) => indent = 0 /\ C25_Aligned(C25_Emitted, <<>>)

\* C25 as stated: the indent counter is never negative, goes up exactly on
\* a block opening tag emitted as a normal block and down exactly on a
\* block closing tag, and balanced input ends at 0 with every closing tag
\* at the indentation of its opening tag
C25_IndentCounter_Original ==
    /\ [](indent >= 0)
    /\ [][/\ indent' = indent + 1 <=> C25_OpensNormalBlock
          /\ indent' = indent - 1 <=> C25_EmitsBlockClose]_vars
    /\ []C25_BalancedInputIsAligned

\* C25, amended: the indent counter is never negative, goes up exactly on a
\* block opening tag emitted as a normal block and goes down, unless it is
\* 0, exactly on a block closing tag that does not end a single-line block;
\* no other step changes it; balanced input ends at 0 with every closing
\* tag at the indentation of its opening tag
C25_IndentCounter ==
    /\ [](indent >= 0)
    /\ [][/\ indent' = indent + 1 <=> C25_OpensNormalBlock
          /\ indent' = indent - 1 <=> (AtBlockTag("close") /\ indent > 0)
          /\ indent' \in {indent - 1, indent, indent + 1}]_vars
    /\ []C25_BalancedInputIsAligned

\* balanced input with a block inside a block has been formatted
C25_Witness ==
    /\ fpc = "done" /\ C25_Balanced /\ Len(formatted) >= 3
    /\ formatted[1].indent = 0 /\ formatted[2].indent = 1
    /\ formatted[Len(formatted)].indent = 0
    /\ formatted[Len(formatted)].toks[1].k = "close"

\* the containers the claim calls leaf block containers
C26_LeafContainers == {"entry", "p", "li", "title", "dt", "dd"}

\* the index of the close tag that matches the open tag at index i: the
\* first at which as many tags of the name are closed as opened, or 0
RECURSIVE C26_CloseFrom(_, _, _)
C26_CloseFrom(j, name, balance) ==
    IF j > Len(fmtTags) THEN 0
    ELSE IF fmtTags[j].k = "close" /\ fmtTags[j].tag = name
    THEN IF balance = 1 THEN j ELSE C26_CloseFrom(j + 1, name, balance - 1)
    ELSE IF fmtTags[j].k = "open" /\ fmtTags[j].tag = name
    THEN C26_CloseFrom(j + 1, name, balance + 1)
    ELSE C26_CloseFrom(j + 1, name, balance)

C26_MatchingClose(i) == C26_CloseFrom(i + 1, fmtTags[i].tag, 1)

\* no block-level tag between the open tag at index i and its matching close
C26_OnlyInline(i) ==
    /\ C26_MatchingClose(i) # 0
    /\ \A j \in (i + 1)..(C26_MatchingClose(i) - 1) :
          fmtTags[j].k = "text" \/ fmtTags[j].tag \notin BlockTags

\* the step put the container on one line: open tag, content, close tag
C26_OnOneLine ==
    /\ indent' = indent
    /\ fmtIndex' = C26_MatchingClose(fmtIndex) + 1
    /\ formatted' # <<>>
    /\ LET last == formatted'[Len(formatted')].toks
       IN  /\ Len(last) = C26_MatchingClose(fmtIndex) - fmtIndex + 1
           /\ last[1] = fmtTags[fmtIndex]
           /\ last[Len(last)] = fmtTags[C26_MatchingClose(fmtIndex)]

\* the step emitted the open tag as a normal indented block
C26_AsNormalBlock ==
    /\ indent' = indent + 1
    /\ fmtIndex' = fmtIndex + 1
    /\ formatted' # <<>>
    /\ formatted'[Len(formatted')].toks = <<fmtTags[fmtIndex]>>

\* C26: a leaf block container is emitted on one line, with no change of
\* the indent counter, if and only if no block-level tag occurs between its
\* open tag and its matching close tag, and as a normal indented block
\* otherwise; a container that holds a block-level element, also one of its
\* own tag name, is never emitted on one line
C26_SingleLineIffOnlyInline ==
    [][(AtBlockTag("open") /\ fmtTags[fmtIndex].tag \in C26_LeafContainers)
          => IF C26_OnlyInline(fmtIndex) THEN C26_OnOneLine
             ELSE C26_AsNormalBlock]_vars

\* adjacent texts are one text
RECURSIVE C30_Joined(_)
C30_Joined(tags) ==
    IF Len(tags) < 2 THEN tags
    ELSE IF tags[1].k = "text" /\ tags[2].k = "text"
    THEN C30_Joined(<<TextTok(tags[1].attrs \o tags[2].attrs)>>
                    \o SubSeq(tags, 3, Len(tags)))
    ELSE <<tags[1]>> \o C30_Joined(Tail(tags))

\* the tags, and the texts that are not white space, each text with its
\* white space collapsed and trimmed
C30_Tokens(tags) ==
    LET joined == C30_Joined(tags)
        normal == [i \in 1..Len(joined) |->
                     IF joined[i].k = "text"
                     THEN TextTok(TrimEndChars(TrimStartChars(
                              CollapseChars(joined[i].attrs))))
                     ELSE joined[i]]
    IN  SelectSeq(normal, LAMBDA t : t # TextTok(<<>>))

\* the returned string, split at its tags: the lines, each after the
\* spaces of its indentation and before a line feed
C30_Returned ==
    Flatten([l \in 1..Len(formatted) |->
                <<TextTok([s \in 1..(2 * formatted[l].indent) |-> " "])>>
                \o formatted[l].toks \o <<TextTok(<<"\n">>)>>])

\* C30: formatHtml changes white space only: the tags and the texts that
\* are not white space are the same in the output as in the input, in the
\* same order, whichever path they are emitted through
C30_OnlyWhiteSpaceChanges ==
    fpc = "done" => C30_Tokens(C30_Returned) = C30_Tokens(fmtTags)

\* a text was emitted from the line buffer and another inside a single-line
\* block
C30_Witness ==
    /\ fpc = "done"
    /\ \E l \in 1..Len(formatted) :
          Len(formatted[l].toks) = 1 /\ formatted[l].toks[1].k = "text"
    /\ \E l \in 1..Len(formatted) :
          /\ Len(formatted[l].toks) = 3
          /\ formatted[l].toks[1].k = "open" /\ formatted[l].toks[2].k = "text"

\* ------------------------------------------------------------------------
\* Claims about cell content (checked under SpecNest)
\* ------------------------------------------------------------------------

\* The content of a cell, in document order: "text" for a text fragment,
\* "table" for a nested table (converted or not), "list" for a nested list.
RECURSIVE C29_Fragments(_)
C29_Fragments(nodes) ==
    Flatten([i \in 1..Len(nodes) |->
                IF nodes[i].tag = "#text" THEN <<"text">>
                ELSE IF nodes[i].tag \in {"table", "dita-table"} THEN <<"table">>
                ELSE IF nodes[i].tag \in {"ul", "ol"} THEN <<"list">>
                ELSE C29_Fragments(nodes[i].kids)])

\* the cells of the one row of the outer table, and the entries emitted for them
C29_Cells == nestIn.kids[1].kids[1].kids

C29_Entries == Descendants(nestDoc, "dita-row")[1].kids

\* C29: cell content extraction loses no content: every text fragment and
\* every nested structure of a source cell (text beside paragraphs, a
\* nested converted table, a nested list) is in the emitted cell, in source
\* order
C29_CellContentKept ==
    npc = "done" =>
        /\ Len(C29_Entries) = Len(C29_Cells)
        /\ \A i \in 1..Len(C29_Cells) :
              C29_Fragments(C29_Entries[i].kids) = C29_Fragments(C29_Cells[i].kids)

====
